---- MODULE Spec2Model ----
(***************************************************************************)
(* Model of the brunnel location pipeline of the Biketerra Brunnels        *)
(* extension (js/content.js, js/turf-csp.js).                              *)
(*                                                                         *)
(* Numbers.  The code computes in IEEE doubles; the model computes in      *)
(* fixed point.  Coordinates are rationals over a grid whose step is one   *)
(* metre of latitude: a point is [lon, lat, den] and stands for            *)
(* (lon/den, lat/den) grid steps.  Every length (a value the code holds in *)
(* metres or in kilometres alike) is an integer number of ticks,           *)
(* TicksPerMeter ticks to the metre, so the code's /1000 and *1000 between *)
(* metres and kilometres are exact and leave the number of ticks alone.    *)
(* Divisions and square roots round down.                                  *)
(***************************************************************************)
EXTENDS Integers, Sequences, FiniteSets, TLC

\* Resolution of the fixed-point lengths.
TicksPerMeter == 10

\* Largest number of ways an Overpass answer holds.
MaxBrunnels == 3

Min(a, b) == IF a <= b THEN a ELSE b
Max(a, b) == IF a >= b THEN a ELSE b
Abs(a) == IF a < 0 THEN 0 - a ELSE a

RECURSIVE SqrtIter(_, _)
SqrtIter(n, x) ==
    LET y == (x + n \div x) \div 2
    IN  IF y >= x THEN x ELSE SqrtIter(n, y)

\* Math.sqrt, rounded down (Newton's iteration from a power of two that is
\* not below the root).
ISqrt(n) ==
    IF n <= 0 THEN 0
    ELSE IF n < 256 THEN SqrtIter(n, 16)
    ELSE IF n < 65536 THEN SqrtIter(n, 256)
    ELSE IF n < 16777216 THEN SqrtIter(n, 4096)
    ELSE SqrtIter(n, 46341)

\* turf.point([lon, lat]) of a grid point.
Pt(lon, lat) == [lon |-> lon, lat |-> lat, den |-> 1]

\* Math.cos of a latitude as a step function, <<numerator, denominator>>:
\* 1 near the equator, 1/2 from the 60th grid line of latitude northwards.
CosLat(p) == IF p.lat >= 60 * p.den THEN <<1, 2>> ELSE <<1, 1>>

\* turf.distance: the haversine formula at small separations,
\* sqrt(dLat^2 + dLon^2 * cos(lat1) * cos(lat2)), in ticks.
distance(from, to) ==
    LET dLat == to.lat * from.den - from.lat * to.den
        dLon == to.lon * from.den - from.lon * to.den
        c1   == CosLat(from)
        c2   == CosLat(to)
        cn   == c1[1] * c2[1]
        cd   == c1[2] * c2[2]
        a    == ((dLat * dLat * cd + dLon * dLon * cn)
                    * TicksPerMeter * TicksPerMeter) \div cd
    IN  ISqrt(a) \div (from.den * to.den)

\* pointOnSegment: orthogonal projection in raw lon/lat, t clamped to [0,1].
\* t is the fraction tNum/tDen.
pointOnSegment(start, end, pt) ==
    LET dx == end.lon - start.lon
        dy == end.lat - start.lat
        lengthSq == dx * dx + dy * dy
        raw == (pt.lon - start.lon) * dx + (pt.lat - start.lat) * dy
        tn == Max(0, Min(lengthSq, raw))
    IN  IF lengthSq = 0
        THEN [point |-> start, tNum |-> 0, tDen |-> 1]
        ELSE [point |-> [lon |-> start.lon * lengthSq + tn * dx,
                         lat |-> start.lat * lengthSq + tn * dy,
                         den |-> lengthSq],
              tNum |-> tn, tDen |-> lengthSq]

\* The loop of nearestPointOnLine with d <= closestDistance for its test: the
\* last of the nearest projections wins.
RECURSIVE NearestScanLast(_, _, _, _, _)
NearestScanLast(coords, pt, i, best, totalDistance) ==
    IF i >= Len(coords) - 1 THEN best
    ELSE LET start == coords[i + 1]
             end == coords[i + 2]
             segmentLength == distance(start, end)
             result == pointOnSegment(start, end, pt)
             d == distance(result.point, pt)
             next == IF ~best.found \/ d <= best.dist
                     THEN [found |-> TRUE, point |-> result.point, dist |-> d,
                           location |-> totalDistance
                               + (result.tNum * segmentLength) \div result.tDen]
                     ELSE best
         IN  NearestScanLast(coords, pt, i + 1, next, totalDistance + segmentLength)

\* The loop of nearestPointOnLine from segment i (0-based) on; best.found
\* FALSE stands for closestDistance = Infinity.
RECURSIVE NearestScan(_, _, _, _, _)
NearestScan(coords, pt, i, best, totalDistance) ==
    IF i >= Len(coords) - 1 THEN best
    ELSE LET start == coords[i + 1]
             end == coords[i + 2]
             segmentLength == distance(start, end)
             result == pointOnSegment(start, end, pt)
             d == distance(result.point, pt)
             next == IF ~best.found \/ d < best.dist
                     THEN [found |-> TRUE, point |-> result.point, dist |-> d,
                           location |-> totalDistance
                               + (result.tNum * segmentLength) \div result.tDen]
                     ELSE best
         IN  NearestScan(coords, pt, i + 1, next, totalDistance + segmentLength)

\* turf.nearestPointOnLine(line, pt): the closest projection, its distance and
\* its cumulative location along the line.
nearestPointOnLine(line, pt) ==
    NearestScan(line, pt, 0,
                [found |-> FALSE, point |-> pt, dist |-> 0, location |-> 0], 0)

\* tan(k degrees) * 10000 for k = 1..45 (Math.atan2 is evaluated from it).
TanTable ==
    <<175, 349, 524, 699, 875, 1051, 1228, 1405, 1584, 1763, 1944, 2126, 2309,
      2493, 2679, 2867, 3057, 3249, 3443, 3640, 3839, 4040, 4245, 4452, 4663,
      4877, 5095, 5317, 5543, 5774, 6009, 6249, 6494, 6745, 7002, 7265, 7536,
      7813, 8098, 8391, 8693, 9004, 9325, 9657, 10000>>

\* atan(a / b) in whole degrees for 0 <= a <= b, 0 < b (rounded down).
OctantDeg(a, b) ==
    LET ks == {k \in 1..45 : TanTable[k] * b <= 10000 * a}
    IN  IF ks = {} THEN 0 ELSE CHOOSE k \in ks : \A j \in ks : j <= k

\* atan(a / b) in whole degrees for a, b >= 0 (0 when both are 0).
QuadrantDeg(a, b) ==
    IF a = 0 THEN 0
    ELSE IF a <= b THEN OctantDeg(a, b) ELSE 90 - OctantDeg(b, a)

\* Math.atan2(y, x) in whole degrees, in (-180, 180].
Atan2Deg(y, x) ==
    LET q == QuadrantDeg(Abs(y), Abs(x))
    IN  IF y >= 0 THEN (IF x >= 0 THEN q ELSE 180 - q)
        ELSE (IF x >= 0 THEN 0 - q ELSE q - 180)

\* turf.rhumbBearing(start, end) in whole degrees, in [0, 360).  At small
\* separations deltaPsi is dLat / cos(lat); the anti-meridian wrap of
\* deltaLambda does not arise on the grid.
rhumbBearing(start, end) ==
    LET deltaLambda == end.lon * start.den - start.lon * end.den
        dLat == end.lat * start.den - start.lat * end.den
        c == CosLat(start)
        bearing == Atan2Deg(deltaLambda * c[1], dLat * c[2])
    IN  (bearing + 360) % 360

\* getBearingDifference without the fold of differences above 90 degrees.
getBearingDifferenceUnfolded(bearing1, bearing2) ==
    LET d0 == Abs(bearing1 - bearing2)
    IN  IF d0 > 180 THEN 360 - d0 ELSE d0

\* GeometryUtils.getBearingDifference
getBearingDifference(bearing1, bearing2) ==
    LET d0 == Abs(bearing1 - bearing2)
        d1 == IF d0 > 180 THEN 360 - d0 ELSE d0
    IN  IF d1 > 90 THEN Abs(180 - d1) ELSE d1

\* routeSpan of a brunnel before calculateRouteSpan ran (null).
NoSpan == [isNull |-> TRUE, startDistance |-> 0, endDistance |-> 0]

Span(s, e) == [isNull |-> FALSE, startDistance |-> s, endDistance |-> e]

\* BiketerraIntegration.parseRouteData: routePoints are
\* <<lat, lon, elevation, cumulative distance>>.
parseRouteData(routePoints) ==
    LET coords == [i \in 1..Len(routePoints) |->
                      [lat |-> routePoints[i][1], lon |-> routePoints[i][2],
                       elevation |-> routePoints[i][3],
                       distance |-> routePoints[i][4]]]
    IN  [coordinates |-> coords,
         totalDistance |-> coords[Len(coords)].distance,
         turfLineString |-> [i \in 1..Len(coords) |->
                                Pt(coords[i].lon, coords[i].lat)]]

\* GeometryUtils.calculateCumulativeDistances
calculateCumulativeDistances(routeCoords) ==
    [i \in 1..Len(routeCoords) |-> routeCoords[i].distance]

\* The segment search of turfLocationToBiketerraDistance from index i
\* (0-based) on: the index the loop leaves in segmentIndex and the running
\* turfCumulative.
RECURSIVE SegmentSearch(_, _, _, _)
SegmentSearch(coords, turfLocationKm, i, turfCumulative) ==
    IF i >= Len(coords) - 1
    THEN [segmentIndex |-> i, turfCumulative |-> turfCumulative]
    ELSE LET p1 == coords[i + 1]
             p2 == coords[i + 2]
             segmentDist == distance(Pt(p1.lon, p1.lat), Pt(p2.lon, p2.lat))
         IN  IF turfCumulative + segmentDist >= turfLocationKm
             THEN [segmentIndex |-> i, turfCumulative |-> turfCumulative]
             ELSE SegmentSearch(coords, turfLocationKm, i + 1,
                                turfCumulative + segmentDist)

\* The bracketing segment and the fraction t = tNum/tDen that
\* turfLocationToBiketerraDistance interpolates with.
bracketingSegment(turfLocationKm, route) ==
    LET coords == route.coordinates
        found == SegmentSearch(coords, turfLocationKm, 0, 0)
        segmentIndex == Min(found.segmentIndex, Len(coords) - 2)
        p1 == coords[segmentIndex + 1]
        p2 == coords[segmentIndex + 2]
        segmentStartTurf == found.turfCumulative
        segmentLengthTurf == distance(Pt(p1.lon, p1.lat), Pt(p2.lon, p2.lat))
    IN  [segmentIndex |-> segmentIndex,
         segmentStartTurf |-> segmentStartTurf,
         segmentLengthTurf |-> segmentLengthTurf,
         tNum |-> IF segmentLengthTurf > 0
                  THEN Min(segmentLengthTurf,
                           Max(0, turfLocationKm - segmentStartTurf))
                  ELSE 0,
         tDen |-> IF segmentLengthTurf > 0 THEN segmentLengthTurf ELSE 1]

\* GeometryUtils.turfLocationToBiketerraDistance, given the location of a
\* nearestPointOnLine result.
turfLocationToBiketerraDistance(turfLocationKm, route) ==
    LET b == bracketingSegment(turfLocationKm, route)
        dist1 == route.coordinates[b.segmentIndex + 1].distance
        dist2 == route.coordinates[b.segmentIndex + 2].distance
    IN  dist1 + (b.tNum * (dist2 - dist1)) \div b.tDen

\* calculateRouteSpan without the Math.min / Math.max of its result.
calculateRouteSpanUnordered(brunnel, route) ==
    IF Len(brunnel.geometry) = 0 THEN NoSpan
    ELSE LET routeLine == route.turfLineString
             startNearest == nearestPointOnLine(routeLine, brunnel.geometry[1])
             endNearest ==
                 nearestPointOnLine(routeLine,
                                    brunnel.geometry[Len(brunnel.geometry)])
         IN  Span(turfLocationToBiketerraDistance(startNearest.location, route),
                  turfLocationToBiketerraDistance(endNearest.location, route))

\* GeometryUtils.calculateRouteSpan
calculateRouteSpan(brunnel, route) ==
    IF Len(brunnel.geometry) = 0 THEN NoSpan
    ELSE LET routeLine == route.turfLineString
             startPoint == brunnel.geometry[1]
             endPoint == brunnel.geometry[Len(brunnel.geometry)]
             startNearest == nearestPointOnLine(routeLine, startPoint)
             endNearest == nearestPointOnLine(routeLine, endPoint)
             startDistance ==
                 turfLocationToBiketerraDistance(startNearest.location, route)
             endDistance ==
                 turfLocationToBiketerraDistance(endNearest.location, route)
         IN  Span(Min(startDistance, endDistance),
                  Max(startDistance, endDistance))

\* brunnelWithinDistance rejecting a vertex at exactly the buffer distance.
brunnelWithinDistanceExclusive(brunnel, route, bufferMeters) ==
    LET bufferKm == bufferMeters * TicksPerMeter
    IN  \A i \in 1..Len(brunnel.geometry) :
            LET brunnelPoint == brunnel.geometry[i]
                nearest == nearestPointOnLine(route.turfLineString, brunnelPoint)
                dist == distance(brunnelPoint, nearest.point)
            IN  ~(dist >= bufferKm)

\* GeometryUtils.brunnelWithinDistance; bufferMeters is in metres.
brunnelWithinDistance(brunnel, route, bufferMeters) ==
    LET bufferKm == bufferMeters * TicksPerMeter
    IN  \A i \in 1..Len(brunnel.geometry) :
            LET brunnelPoint == brunnel.geometry[i]
                nearest == nearestPointOnLine(route.turfLineString, brunnelPoint)
                dist == distance(brunnelPoint, nearest.point)
            IN  ~(dist > bufferKm)

\* The scan of getRouteSegment from index i (0-based) on; -1 is "not set".
RECURSIVE SegmentScan(_, _, _, _, _, _)
SegmentScan(routeCoords, cumulativeDistances, startDistMeters, endDistMeters, i, startIndex) ==
    IF i >= Len(cumulativeDistances)
    THEN [startIndex |-> startIndex, endIndex |-> -1]
    ELSE LET currentDistance == cumulativeDistances[i + 1]
             s == IF startIndex = -1 /\ currentDistance >= startDistMeters
                  THEN Max(0, i - 1) ELSE startIndex
         IN  IF currentDistance >= endDistMeters
             THEN [startIndex |-> s,
                   endIndex |-> Min(Len(routeCoords) - 1, i + 1)]
             ELSE SegmentScan(routeCoords, cumulativeDistances,
                              startDistMeters, endDistMeters, i + 1, s)

\* getRouteSegment giving a zero-width span a window (startDist > endDist
\* for its first test).
getRouteSegmentZeroWidth(routeCoords, cumulativeDistances, startDist, endDist) ==
    IF startDist > endDist \/ startDist < 0 THEN <<>>
    ELSE LET r == SegmentScan(routeCoords, cumulativeDistances,
                              startDist, endDist, 0, -1)
             endIndex == IF r.endIndex = -1 THEN Len(routeCoords) - 1
                         ELSE r.endIndex
         IN  IF r.startIndex = -1 THEN <<>>
             ELSE SubSeq(routeCoords, r.startIndex + 1, endIndex + 1)

\* GeometryUtils.getRouteSegment
getRouteSegment(routeCoords, cumulativeDistances, startDist, endDist) ==
    IF startDist >= endDist \/ startDist < 0 THEN <<>>
    ELSE LET r == SegmentScan(routeCoords, cumulativeDistances,
                              startDist, endDist, 0, -1)
             endIndex == IF r.endIndex = -1 THEN Len(routeCoords) - 1
                         ELSE r.endIndex
         IN  IF r.startIndex = -1 THEN <<>>
             ELSE SubSeq(routeCoords, r.startIndex + 1, endIndex + 1)

\* isBrunnelAligned asking every pair of segments to be within the tolerance.
isBrunnelAlignedEvery(brunnel, routeCoords, cumulativeDistances, routeSpan, toleranceDegrees) ==
    IF Len(brunnel.geometry) < 2 \/ Len(routeCoords) < 2 \/ routeSpan.isNull
    THEN TRUE
    ELSE LET routeSegment ==
                 getRouteSegment(routeCoords, cumulativeDistances,
                                 routeSpan.startDistance, routeSpan.endDistance)
         IN  IF Len(routeSegment) < 2 THEN TRUE
             ELSE \A i \in 1..(Len(brunnel.geometry) - 1) :
                  \A j \in 1..(Len(routeSegment) - 1) :
                      getBearingDifference(
                          rhumbBearing(brunnel.geometry[i], brunnel.geometry[i + 1]),
                          rhumbBearing(
                              Pt(routeSegment[j].lon, routeSegment[j].lat),
                              Pt(routeSegment[j + 1].lon, routeSegment[j + 1].lat)))
                          <= toleranceDegrees

\* GeometryUtils.isBrunnelAligned
isBrunnelAligned(brunnel, routeCoords, cumulativeDistances, routeSpan, toleranceDegrees) ==
    IF Len(brunnel.geometry) < 2 \/ Len(routeCoords) < 2 \/ routeSpan.isNull
    THEN TRUE
    ELSE LET routeSegment ==
                 getRouteSegment(routeCoords, cumulativeDistances,
                                 routeSpan.startDistance, routeSpan.endDistance)
         IN  IF Len(routeSegment) < 2 THEN TRUE
             ELSE \E i \in 1..(Len(brunnel.geometry) - 1) :
                  \E j \in 1..(Len(routeSegment) - 1) :
                      LET brunnelBearing ==
                              rhumbBearing(brunnel.geometry[i],
                                           brunnel.geometry[i + 1])
                          routeBearing ==
                              rhumbBearing(
                                  Pt(routeSegment[j].lon, routeSegment[j].lat),
                                  Pt(routeSegment[j + 1].lon,
                                     routeSegment[j + 1].lat))
                      IN  getBearingDifference(brunnelBearing, routeBearing)
                              <= toleranceDegrees

\* new Brunnel(data): geometry holds the vertices as points (turfPoints).
Brunnel(data) ==
    [id |-> data.id, type |-> data.type, name |-> data.name,
     geometry |-> data.geometry,
     routeSpan |-> NoSpan, exclusionReason |-> "null"]

\* Brunnel.fromOverpassData: the bridges first, then the tunnels.
fromOverpassData(overpassData) ==
    [i \in 1..Len(overpassData.bridges) |->
        Brunnel([id |-> overpassData.bridges[i].id, type |-> "bridge",
                 name |-> overpassData.bridges[i].name,
                 geometry |-> overpassData.bridges[i].geometry])]
    \o
    [i \in 1..Len(overpassData.tunnels) |->
        Brunnel([id |-> overpassData.tunnels[i].id, type |-> "tunnel",
                 name |-> overpassData.tunnels[i].name,
                 geometry |-> overpassData.tunnels[i].geometry])]

\* Brunnel.isIncluded
isIncluded(b) == b.exclusionReason = "null"

\* Brunnel.isAligned
isAligned(b, routeCoords, cumulativeDistances, toleranceDegrees) ==
    IF b.routeSpan.isNull THEN TRUE
    ELSE isBrunnelAligned(b, routeCoords, cumulativeDistances, b.routeSpan,
                          toleranceDegrees)

\* BrunnelAnalysis.filterContained: the brunnels after the marking, and the
\* array the call returns.
filterContained(brunnels, route, bufferMeters) ==
    LET within == [i \in 1..Len(brunnels) |->
                      brunnelWithinDistance(brunnels[i], route, bufferMeters)]
        marked == [i \in 1..Len(brunnels) |->
                      IF within[i] THEN brunnels[i]
                      ELSE [brunnels[i] EXCEPT !.exclusionReason = "outlier"]]
        Kept(i) == within[i]
        kept == SelectSeq([i \in 1..Len(brunnels) |-> i], Kept)
    IN  [brunnels |-> marked,
         returned |-> [k \in 1..Len(kept) |-> marked[kept[k]]]]

\* BrunnelAnalysis.calculateRouteSpans
calculateRouteSpans(brunnels, route) ==
    [i \in 1..Len(brunnels) |->
        [brunnels[i] EXCEPT !.routeSpan = calculateRouteSpan(brunnels[i], route)]]

\* filterAligned without the isIncluded() test around the alignment test.
filterAlignedUnguarded(brunnels, routeCoords, cumulativeDistances, toleranceDegrees) ==
    [i \in 1..Len(brunnels) |->
        IF ~isAligned(brunnels[i], routeCoords, cumulativeDistances,
                      toleranceDegrees)
        THEN [brunnels[i] EXCEPT !.exclusionReason = "misaligned"]
        ELSE brunnels[i]]

\* BrunnelAnalysis.filterAligned
filterAligned(brunnels, routeCoords, cumulativeDistances, toleranceDegrees) ==
    [i \in 1..Len(brunnels) |->
        IF isIncluded(brunnels[i])
           /\ ~isAligned(brunnels[i], routeCoords, cumulativeDistances,
                         toleranceDegrees)
        THEN [brunnels[i] EXCEPT !.exclusionReason = "misaligned"]
        ELSE brunnels[i]]

\* routeSpansOverlap counting spans that touch at an endpoint as overlapping.
routeSpansOverlapClosed(span1, span2) ==
    ~(span1.endDistance < span2.startDistance
      \/ span2.endDistance < span1.startDistance)

\* BrunnelAnalysis.routeSpansOverlap
routeSpansOverlap(span1, span2) ==
    ~(span1.endDistance <= span2.startDistance
      \/ span2.endDistance <= span1.startDistance)

\* BrunnelAnalysis._calculateAverageDistanceToRoute: the average as the
\* fraction <<totalDistance, brunnel.geometry.length>>.
RECURSIVE SumDistanceToRoute(_, _, _)
SumDistanceToRoute(brunnel, route, i) ==
    IF i > Len(brunnel.geometry) THEN 0
    ELSE LET brunnelPoint == brunnel.geometry[i]
             nearestPoint == nearestPointOnLine(route.turfLineString, brunnelPoint)
         IN  distance(brunnelPoint, nearestPoint.point)
                 + SumDistanceToRoute(brunnel, route, i + 1)

calculateAverageDistanceToRoute(brunnel, route) ==
    <<SumDistanceToRoute(brunnel, route, 1), Len(brunnel.geometry)>>

\* a.avgDistance - b.avgDistance < 0 on fractions
AvgLess(a, b) == a[1] * b[2] < b[1] * a[2]

\* The inner loop of handleOverlaps without its break: the last group with
\* an overlapping member gets the brunnel.
FindOverlapGroupLast(overlapGroups, b, brunnels) ==
    LET hits == {g \in 1..Len(overlapGroups) :
                    \E k \in 1..Len(overlapGroups[g]) :
                        routeSpansOverlap(brunnels[b].routeSpan,
                            brunnels[overlapGroups[g][k]].routeSpan)}
    IN  IF hits = {} THEN 0 ELSE CHOOSE g \in hits : \A h \in hits : g >= h

\* The first group of overlapGroups (1-based, 0 for none) one of whose
\* members overlaps brunnels[b]: the inner loop of handleOverlaps.
FindOverlapGroup(overlapGroups, b, brunnels) ==
    LET hits == {g \in 1..Len(overlapGroups) :
                    \E k \in 1..Len(overlapGroups[g]) :
                        routeSpansOverlap(brunnels[b].routeSpan,
                            brunnels[overlapGroups[g][k]].routeSpan)}
    IN  IF hits = {} THEN 0 ELSE CHOOSE g \in hits : \A h \in hits : g <= h

\* The grouping loop of handleOverlaps over includedBrunnels (indices into
\* brunnels, in array order).
RECURSIVE BuildOverlapGroups(_, _, _)
BuildOverlapGroups(includedBrunnels, overlapGroups, brunnels) ==
    IF includedBrunnels = <<>> THEN overlapGroups
    ELSE LET b == Head(includedBrunnels)
             g == FindOverlapGroup(overlapGroups, b, brunnels)
         IN  BuildOverlapGroups(Tail(includedBrunnels),
                 IF g = 0 THEN Append(overlapGroups, <<b>>)
                 ELSE [overlapGroups EXCEPT ![g] = Append(@, b)],
                 brunnels)

\* Indices of the brunnels that are included and have a span, in array order.
RECURSIVE IncludedIndices(_, _)
IncludedIndices(brunnels, i) ==
    IF i > Len(brunnels) THEN <<>>
    ELSE (IF isIncluded(brunnels[i]) /\ ~brunnels[i].routeSpan.isNull
          THEN <<i>> ELSE <<>>) \o IncludedIndices(brunnels, i + 1)

\* The sort of brunnelDistances with the comparator reversed
\* (b.avgDistance - a.avgDistance).
RECURSIVE InsertByAvgDescending(_, _)
InsertByAvgDescending(sorted, x) ==
    IF sorted = <<>> THEN <<x>>
    ELSE IF AvgLess(Head(sorted).avgDistance, x.avgDistance)
         THEN <<x>> \o sorted
         ELSE <<Head(sorted)>> \o InsertByAvgDescending(Tail(sorted), x)

\* brunnelDistances.sort((a, b) => a.avgDistance - b.avgDistance): a stable
\* sort, as insertion of x behind every entry that is not greater.
RECURSIVE InsertByAvg(_, _)
InsertByAvg(sorted, x) ==
    IF sorted = <<>> THEN <<x>>
    ELSE IF AvgLess(x.avgDistance, Head(sorted).avgDistance)
         THEN <<x>> \o sorted
         ELSE <<Head(sorted)>> \o InsertByAvg(Tail(sorted), x)

RECURSIVE SortByAvg(_, _)
SortByAvg(entries, i) ==
    IF i = 0 THEN <<>>
    ELSE InsertByAvg(SortByAvg(entries, i - 1), entries[i])

\* The members of a group that handleOverlaps marks 'alternative': everyone
\* behind the first entry of the sorted brunnelDistances.
GroupLosers(group, brunnels, route) ==
    IF Len(group) > 1
    THEN LET brunnelDistances ==
                 [k \in 1..Len(group) |->
                     [brunnel |-> group[k],
                      avgDistance |->
                          calculateAverageDistanceToRoute(brunnels[group[k]], route)]]
             sorted == SortByAvg(brunnelDistances, Len(brunnelDistances))
         IN  {sorted[k].brunnel : k \in 2..Len(sorted)}
    ELSE {}

\* BrunnelAnalysis.handleOverlaps: the brunnels after the marking, and the
\* overlapGroups it built.
handleOverlaps(brunnels, route) ==
    LET overlapGroups ==
            BuildOverlapGroups(IncludedIndices(brunnels, 1), <<>>, brunnels)
        losers == UNION {GroupLosers(overlapGroups[g], brunnels, route) :
                            g \in 1..Len(overlapGroups)}
    IN  [brunnels |-> [i \in 1..Len(brunnels) |->
                          IF i \in losers
                          THEN [brunnels[i] EXCEPT !.exclusionReason = "alternative"]
                          ELSE brunnels[i]],
         overlapGroups |-> overlapGroups]

\* The 0.001 km of _mergeByType: one metre.
MergeGapKm == TicksPerMeter

\* (a.routeSpan?.startDistance || 0)
StartKey(b) == IF b.routeSpan.isNull THEN 0 ELSE b.routeSpan.startDistance

\* [...brunnels].sort by start distance: a stable sort.
RECURSIVE InsertByStart(_, _)
InsertByStart(sorted, x) ==
    IF sorted = <<>> THEN <<x>>
    ELSE IF StartKey(x) < StartKey(Head(sorted))
         THEN <<x>> \o sorted
         ELSE <<Head(sorted)>> \o InsertByStart(Tail(sorted), x)

RECURSIVE SortByStart(_, _)
SortByStart(brunnels, i) ==
    IF i = 0 THEN <<>>
    ELSE InsertByStart(SortByStart(brunnels, i - 1), brunnels[i])

\* The test of _mergeByType that folds curr into the open group.
FoldsInto(currentGroup, curr) ==
    LET prev == currentGroup[Len(currentGroup)]
        gap == curr.routeSpan.startDistance - prev.routeSpan.endDistance
    IN  gap <= MergeGapKm

\* The loop of _mergeByType from sorted[i] (1-based) on: the groups it closes,
\* in order, the last one included.
RECURSIVE MergeScan(_, _, _, _)
MergeScan(sorted, i, currentGroup, closed) ==
    IF i > Len(sorted) THEN Append(closed, currentGroup)
    ELSE IF FoldsInto(currentGroup, sorted[i])
         THEN MergeScan(sorted, i + 1, Append(currentGroup, sorted[i]), closed)
         ELSE MergeScan(sorted, i + 1, <<sorted[i]>>,
                        Append(closed, currentGroup))

\* The groups _mergeByType hands to _createMergedBrunnel.
mergeGroups(brunnels) ==
    IF Len(brunnels) = 0 THEN <<>>
    ELSE LET sorted == SortByStart(brunnels, Len(brunnels))
         IN  MergeScan(sorted, 2, <<sorted[1]>>, <<>>)

\* [...new Set(names)]: the distinct names in first-occurrence order.
RECURSIVE UniqueNames(_, _)
UniqueNames(names, seen) ==
    IF names = <<>> THEN seen
    ELSE UniqueNames(Tail(names),
             IF \E k \in 1..Len(seen) : seen[k] = Head(names)
             THEN seen ELSE Append(seen, Head(names)))

\* uniqueNames.join('; '): a name is the sequence of the parts that '; '
\* separates.
RECURSIVE JoinNames(_)
JoinNames(names) ==
    IF names = <<>> THEN <<>> ELSE Head(names) \o JoinNames(Tail(names))

MinOf(S) == CHOOSE x \in S : \A y \in S : x <= y
MaxOf(S) == CHOOSE x \in S : \A y \in S : x >= y

\* _createMergedBrunnel taking the endDistance of the last member for the
\* end of the merged span.
createMergedBrunnelLastEnd(group) ==
    IF Len(group) = 1 THEN group[1]
    ELSE LET names == [k \in 1..Len(group) |-> group[k].name]
             uniqueNames == UniqueNames(names, <<>>)
         IN  [group[1] EXCEPT
                 !.routeSpan = Span(group[1].routeSpan.startDistance,
                                    group[Len(group)].routeSpan.endDistance),
                 !.name = IF Len(uniqueNames) = 1 THEN uniqueNames[1]
                          ELSE JoinNames(uniqueNames)]

\* BrunnelAnalysis._createMergedBrunnel
createMergedBrunnel(group) ==
    IF Len(group) = 1 THEN group[1]
    ELSE LET startDistance ==
                 MinOf({group[k].routeSpan.startDistance : k \in 1..Len(group)})
             endDistance ==
                 MaxOf({group[k].routeSpan.endDistance : k \in 1..Len(group)})
             names == [k \in 1..Len(group) |-> group[k].name]
             uniqueNames == UniqueNames(names, <<>>)
             mergedName == IF Len(uniqueNames) = 1 THEN uniqueNames[1]
                           ELSE JoinNames(uniqueNames)
         IN  [group[1] EXCEPT !.routeSpan = Span(startDistance, endDistance),
                              !.name = mergedName]

\* BrunnelAnalysis._mergeByType
mergeByType(brunnels) ==
    LET groups == mergeGroups(brunnels)
    IN  [g \in 1..Len(groups) |-> createMergedBrunnel(groups[g])]

IsBridge(b) == b.type = "bridge"
IsTunnel(b) == b.type = "tunnel"

\* mergeAdjacentBrunnels without the separation by type.
mergeAdjacentBrunnelsMixed(brunnels) == mergeByType(brunnels)

\* BrunnelAnalysis.mergeAdjacentBrunnels
mergeAdjacentBrunnels(brunnels) ==
    mergeByType(SelectSeq(brunnels, IsBridge))
        \o mergeByType(SelectSeq(brunnels, IsTunnel))

(***************************************************************************)
(* locateBrunnels as a state machine: one step per stage of the pipeline.  *)
(***************************************************************************)
VARIABLES
    route,          \* parseRouteData(simpleRoute)
    brunnels,       \* the Brunnel instances of locateBrunnels
    stage,          \* the stage of locateBrunnels that ran last
    overlapGroups,  \* the overlapGroups of the handleOverlaps call (indices
                    \* into brunnels)
    mergedGroups,   \* the groups the _mergeByType calls closed
    located,        \* result.brunnels of locateBrunnels
    call,           \* a direct call of turfLocationToBiketerraDistance: its
                    \* argument and what it computed
    locatedBrunnels,    \* the panel's locatedBrunnels
    appliedBrunnelIds,  \* the panel's appliedBrunnelIds
    totalDistance,      \* the panel's totalDistance
    panel,          \* the panel's DOM: whether #bt-locateBtn and #bt-applyBtn
                    \* are disabled, and the status line
    tasks,          \* the async calls in flight, each where it awaits
    page,           \* the Biketerra page: its chart and toolbar
    marked          \* how often each brunnel was marked on the page since the last locate
                    \* since the last successful locate

\* The state of the overlay panel and of the page it automates.
uiVars == <<locatedBrunnels, appliedBrunnelIds, totalDistance, panel, tasks, page, marked>>

vars == <<route, brunnels, stage, overlapGroups, mergedGroups, located, call, locatedBrunnels, appliedBrunnelIds, totalDistance, panel, tasks, page, marked>>

\* The status line of the panel.
Status(class, text) == [class |-> class, text |-> text]

\* The panel as createPanel builds it, before any click.
PanelCreated ==
    /\ locatedBrunnels = <<>>
    /\ appliedBrunnelIds = {}
    /\ totalDistance = 0
    /\ panel = [locateBtn |-> [disabled |-> FALSE],
                applyBtn |-> [disabled |-> TRUE],
                status |-> Status("", "Ready")]
    /\ tasks = <<>>
    /\ marked = <<>>

\* A page without an elevation chart.
NoPage == [chart |-> FALSE, readings |-> {}, buttons |-> FALSE]

\* The defaults of locateBrunnels' options.
routeBuffer == 3
bearingTolerance == 20

\* simple_route of a route running east along the equator, a trackpoint every
\* metre, the reference distances agreeing with the geometry.
EquatorRoute ==
    [x \in 1..5 |-> <<0, x - 1, 0, (x - 1) * TicksPerMeter>>]

\* simple_route of a route on the 60th grid line (a step of longitude is half
\* a metre there) with a repeated trackpoint and a turn north; its reference
\* distances are not the great-circle lengths.
NorthRoute ==
    << <<60, 0, 0, 0>>,
       <<60, 2, 0, TicksPerMeter + 2>>,
       <<60, 2, 0, TicksPerMeter + 2>>,
       <<60, 4, 0, 2 * TicksPerMeter + 5>>,
       <<62, 4, 0, 4 * TicksPerMeter + 5>> >>

Routes == {EquatorRoute, NorthRoute}

\* The OSM ways around a route whose first trackpoint is at latitude lat0:
\* way id, name and geometry ({lat, lon} nodes as points).
Ways(lat0) ==
    { [id |-> 1, name |-> <<"a">>,
       geometry |-> <<Pt(0, lat0 + 1), Pt(1, lat0 + 1)>>],
      [id |-> 2, name |-> <<"a">>,
       geometry |-> <<Pt(2, lat0 + 1), Pt(1, lat0 + 1)>>],
      [id |-> 3, name |-> <<"b">>,
       geometry |-> <<Pt(0, lat0), Pt(2, lat0)>>],
      [id |-> 4, name |-> <<"b">>,
       geometry |-> <<Pt(0, lat0 + 3), Pt(0, lat0)>>],
      [id |-> 5, name |-> <<"c">>,
       geometry |-> <<Pt(2, lat0), Pt(3, lat0)>>],
      [id |-> 6, name |-> <<"d">>,
       geometry |-> <<Pt(1, lat0 + 3), Pt(2, lat0 + 4)>>],
      [id |-> 7, name |-> <<"d">>,
       geometry |-> <<Pt(1, lat0), Pt(2, lat0 + 1)>>] }

\* processOverpassData's answer: n distinct ways, the first k of them
\* bridges and the rest tunnels.
OverpassData(pick, k, n) ==
    [bridges |-> [i \in 1..k |-> pick[i]],
     tunnels |-> [i \in 1..(n - k) |-> pick[k + i]]]

\* No direct call was made.
NoCall == [turfLocationKm |-> 0, returned |-> FALSE, segmentIndex |-> 0,
           tNum |-> 0, tDen |-> 1, distance |-> 0]

Init ==
    \E simpleRoute \in Routes, n \in 0..MaxBrunnels :
    \E k \in 0..n :
    \E pick \in [1..n -> Ways(simpleRoute[1][1])] :
        /\ \A i, j \in 1..n : i # j => pick[i].id # pick[j].id
        /\ route = parseRouteData(simpleRoute)
        /\ brunnels = fromOverpassData(OverpassData(pick, k, n))
        /\ stage = "created"
        /\ overlapGroups = <<>>
        /\ mergedGroups = <<>>
        /\ located = <<>>
        /\ call = NoCall
        /\ PanelCreated
        /\ page = NoPage

\* BrunnelAnalysis.filterContained(brunnels, route, routeBuffer); the array it
\* returns is dropped.
FilterContained ==
    /\ stage = "created"
    /\ brunnels' = filterContained(brunnels, route, routeBuffer).brunnels
    /\ stage' = "contained"
    /\ UNCHANGED <<route, overlapGroups, mergedGroups, located, call>>
    /\ UNCHANGED uiVars

\* BrunnelAnalysis.calculateRouteSpans(brunnels, route)
CalculateRouteSpans ==
    /\ stage = "contained"
    /\ brunnels' = calculateRouteSpans(brunnels, route)
    /\ stage' = "spanned"
    /\ UNCHANGED <<route, overlapGroups, mergedGroups, located, call>>
    /\ UNCHANGED uiVars

\* BrunnelAnalysis.filterAligned(brunnels, ...)
FilterAligned ==
    /\ stage = "spanned"
    /\ brunnels' = filterAligned(brunnels, route.coordinates,
                       calculateCumulativeDistances(route.coordinates),
                       bearingTolerance)
    /\ stage' = "aligned"
    /\ UNCHANGED <<route, overlapGroups, mergedGroups, located, call>>
    /\ UNCHANGED uiVars

\* BrunnelAnalysis.handleOverlaps(brunnels, route)
HandleOverlaps ==
    /\ stage = "aligned"
    /\ LET r == handleOverlaps(brunnels, route)
       IN  /\ brunnels' = r.brunnels
           /\ overlapGroups' = r.overlapGroups
    /\ stage' = "resolved"
    /\ UNCHANGED <<route, mergedGroups, located, call>>
    /\ UNCHANGED uiVars

\* The filter of includedBrunnels without the isIncluded() test.
IncludedWithSpanAnyReason(b) == ~b.routeSpan.isNull

\* b => b.isIncluded() && b.routeSpan
IncludedWithSpan(b) == isIncluded(b) /\ ~b.routeSpan.isNull

\* The tail of locateBrunnels: includedBrunnels, mergeAdjacentBrunnels and
\* the result.  _createMergedBrunnel writes the span and the name of a
\* group's representative, which is an element of brunnels.
MergeAndReturn ==
    /\ stage = "resolved"
    /\ LET includedBrunnels == SelectSeq(brunnels, IncludedWithSpan)
           mergedBrunnels == mergeAdjacentBrunnels(includedBrunnels)
       IN  /\ located' = [i \in 1..Len(mergedBrunnels) |->
                             [id |-> mergedBrunnels[i].id,
                              type |-> mergedBrunnels[i].type,
                              name |-> mergedBrunnels[i].name,
                              startDistance |->
                                  mergedBrunnels[i].routeSpan.startDistance,
                              endDistance |->
                                  mergedBrunnels[i].routeSpan.endDistance]]
           /\ mergedGroups' =
                  mergeGroups(SelectSeq(includedBrunnels, IsBridge))
                      \o mergeGroups(SelectSeq(includedBrunnels, IsTunnel))
           /\ brunnels' = [i \in 1..Len(brunnels) |->
                  IF \E m \in 1..Len(mergedBrunnels) :
                         mergedBrunnels[m].id = brunnels[i].id
                  THEN CHOOSE b \in {mergedBrunnels[m] : m \in 1..Len(mergedBrunnels)} :
                           b.id = brunnels[i].id
                  ELSE brunnels[i]]
    /\ stage' = "done"
    /\ UNCHANGED <<route, overlapGroups, call>>
    /\ UNCHANGED uiVars

Next ==
    \/ FilterContained
    \/ CalculateRouteSpans
    \/ FilterAligned
    \/ HandleOverlaps
    \/ MergeAndReturn

Spec == Init /\ [][Next]_vars

(***************************************************************************)
(* GeometryUtils.turfLocationToBiketerraDistance called on its own, with   *)
(* any location as that of the nearestPointOnLine result.                  *)
(***************************************************************************)

\* Largest location (in ticks) a call is made with.
MaxTurfLocation == 60

InitLocation ==
    \E simpleRoute \in Routes, turfLocationKm \in 0..MaxTurfLocation :
        /\ route = parseRouteData(simpleRoute)
        /\ brunnels = <<>>
        /\ stage = "turfLocation"
        /\ overlapGroups = <<>>
        /\ mergedGroups = <<>>
        /\ located = <<>>
        /\ call = [NoCall EXCEPT !.turfLocationKm = turfLocationKm]
        /\ PanelCreated
        /\ page = NoPage

TurfLocationToBiketerraDistance ==
    /\ stage = "turfLocation"
    /\ ~call.returned
    /\ LET b == bracketingSegment(call.turfLocationKm, route)
       IN  call' = [call EXCEPT
                       !.returned = TRUE,
                       !.segmentIndex = b.segmentIndex,
                       !.tNum = b.tNum,
                       !.tDen = b.tDen,
                       !.distance = turfLocationToBiketerraDistance(
                                        call.turfLocationKm, route)]
    /\ UNCHANGED <<route, brunnels, stage, overlapGroups, mergedGroups, located>>
    /\ UNCHANGED uiVars

NextLocation == TurfLocationToBiketerraDistance

SpecLocation == InitLocation /\ [][NextLocation]_vars

(***************************************************************************)
(* The boundary of the core: validation of the Overpass answer and the     *)
(* units of the geometry primitives.                                       *)
(***************************************************************************)

\* A latitude or longitude of an Overpass node: a number, or something
\* that is not one (NaN, undefined, a string).
Number(v) == [isNumber |-> TRUE, value |-> v]
NotANumber == [isNumber |-> FALSE, value |-> 0]

\* isValidCoordinate with the bounds exclusive.
isValidCoordinateExclusive(lat, lon) ==
    /\ lat.isNumber /\ lon.isNumber
    /\ lat.value > -80 /\ lat.value < 80
    /\ lon.value > -180 /\ lon.value < 180

\* GeometryUtils.isValidCoordinate (degrees)
isValidCoordinate(lat, lon) ==
    /\ lat.isNumber /\ lon.isNumber
    /\ lat.value >= -80 /\ lat.value <= 80
    /\ lon.value >= -180 /\ lon.value <= 180

\* The loop of validateGeometry from node i on.
RECURSIVE ValidCoords(_, _)
ValidCoords(geometry, i) ==
    IF i > Len(geometry) THEN <<>>
    ELSE (IF isValidCoordinate(geometry[i].lat, geometry[i].lon)
          THEN <<[lat |-> geometry[i].lat.value, lon |-> geometry[i].lon.value]>>
          ELSE <<>>) \o ValidCoords(geometry, i + 1)

\* GeometryUtils.validateGeometry
validateGeometry(geometry) ==
    LET validCoords == ValidCoords(geometry, 1)
    IN  IF Len(validCoords) >= 2
        THEN [isNull |-> FALSE, coords |-> validCoords]
        ELSE [isNull |-> TRUE, coords |-> <<>>]

\* The loop of processOverpassData with a 'count' element that moves
\* currentType on from null to bridges and from there to tunnels for good.
RECURSIVE ProcessElementsOneWay(_, _, _, _)
ProcessElementsOneWay(elements, i, currentType, found) ==
    IF i > Len(elements) THEN found
    ELSE LET element == elements[i]
             validGeometry == validateGeometry(element.geometry)
             brunnel == [id |-> element.id,
                         geometry |-> validGeometry.coords,
                         type |-> IF currentType = "bridges" THEN "bridge"
                                  ELSE "tunnel",
                         name |-> element.name]
         IN  IF element.type = "count"
             THEN ProcessElementsOneWay(elements, i + 1,
                      IF currentType = "null" THEN "bridges" ELSE "tunnels",
                      found)
             ELSE IF element.type = "way" /\ element.hasGeometry
                     /\ ~(Len(element.geometry) < 2)
                     /\ ~validGeometry.isNull
             THEN ProcessElementsOneWay(elements, i + 1, currentType,
                      IF currentType = "bridges"
                      THEN [found EXCEPT !.bridges = Append(@, brunnel)]
                      ELSE IF currentType = "tunnels"
                      THEN [found EXCEPT !.tunnels = Append(@, brunnel)]
                      ELSE found)
             ELSE ProcessElementsOneWay(elements, i + 1, currentType, found)

\* The loop of processOverpassData from element i on; currentType is
\* "null", "bridges" or "tunnels".  The name is the one extractName finds.
RECURSIVE ProcessElements(_, _, _, _)
ProcessElements(elements, i, currentType, found) ==
    IF i > Len(elements) THEN found
    ELSE LET element == elements[i]
             validGeometry == validateGeometry(element.geometry)
             brunnel == [id |-> element.id,
                         geometry |-> validGeometry.coords,
                         type |-> IF currentType = "bridges" THEN "bridge"
                                  ELSE "tunnel",
                         name |-> element.name]
         IN  IF element.type = "count"
             THEN ProcessElements(elements, i + 1,
                      IF currentType = "bridges" THEN "tunnels" ELSE "bridges",
                      found)
             ELSE IF element.type = "way" /\ element.hasGeometry
                     /\ ~(Len(element.geometry) < 2)
                     /\ ~validGeometry.isNull
             THEN ProcessElements(elements, i + 1, currentType,
                      IF currentType = "bridges"
                      THEN [found EXCEPT !.bridges = Append(@, brunnel)]
                      ELSE IF currentType = "tunnels"
                      THEN [found EXCEPT !.tunnels = Append(@, brunnel)]
                      ELSE found)
             ELSE ProcessElements(elements, i + 1, currentType, found)

\* OverpassAPI.processOverpassData
processOverpassData(data) ==
    ProcessElements(data.elements, 1, "null", [bridges |-> <<>>, tunnels |-> <<>>])

\* The keys of the factors table of radiansToLength and lengthToRadians.
FactorKeys == {"meters", "kilometres", "kilometers", "miles"}

\* Names every object inherits, for which factors[units] is a function.
InheritedKeys == {"constructor", "toString"}

\* options.units || 'kilometers'; "undefined" stands for an option that was
\* not given, "" for the empty string.
unitsOf(options) ==
    IF options.units \in {"undefined", ""} THEN "kilometers" ELSE options.units

\* radiansToLength(radians, units): the length of an arc given in ticks;
\* what it throws, or the length and whether it is NaN.
radiansToLength(radians, units) ==
    LET u == IF units = "undefined" THEN "kilometers" ELSE units
    IN  IF u \in FactorKeys
        THEN [threw |-> "none", isNaN |-> FALSE, length |-> radians, units |-> u]
        ELSE IF u \in InheritedKeys
        THEN [threw |-> "none", isNaN |-> TRUE, length |-> 0, units |-> u]
        ELSE [threw |-> "Invalid units", isNaN |-> FALSE, length |-> 0, units |-> u]

\* turf.distance(from, to, options)
distanceWithOptions(from, to, options) ==
    radiansToLength(distance(from, to), unitsOf(options))

(***************************************************************************)
(* BiketerraIntegration: the automation of the page's elevation chart.     *)
(* The page is outside the program: what the chart shows is an input of    *)
(* every reading.                                                          *)
(***************************************************************************)

\* What getChartVisibleRange returns: null (a scale tick is missing or its
\* text does not parse), or the range between the first and the last tick.
\* With intermediate ticks (precise) percentPerKm is 100 / rangeKm, so both
\* branches of the pixel computation give the same fraction of the width.
NoRange == [isNull |-> TRUE, startKm |-> 0, endKm |-> 0, rangeKm |-> 0]

VisibleRange(startKm, endKm) ==
    [isNull |-> FALSE, startKm |-> startKm, endKm |-> endKm,
     rangeKm |-> endKm - startKm]

\* The outcome of an async call that dispatches events: what it threw
\* ("none" when it completed) and the events it dispatched.
Completed(events) == [threw |-> "none", events |-> events]
Threw(error) == [threw |-> error, events |-> <<>>]

\* The selection simulateSelection drags: from and to are fractions
\* <<numerator, denominator>> of the chart's width.
Selection(startKm, endKm, from, to) ==
    [kind |-> "selection", startKm |-> startKm, endKm |-> endKm,
     from |-> from, to |-> to]

\* BiketerraIntegration.simulateSelection(startKm, endKm, totalDistanceKm,
\* visibleRange) on a page whose chart is present or not and whose scale
\* reads as reading.  The fallback calls this._performSelection, which no
\* object of the program defines: the call throws a TypeError.
simulateSelection(startKm, endKm, totalDistanceKm, visibleRange, chart, reading) ==
    LET range == IF visibleRange.isNull THEN reading ELSE visibleRange
    IN  IF ~chart THEN Threw("Elevation chart not found")
        ELSE IF range.isNull
        THEN Threw("TypeError: this._performSelection is not a function")
        ELSE Completed(<<Selection(startKm, endKm,
                                   <<startKm - range.startKm, range.rangeKm>>,
                                   <<endKm - range.startKm, range.rangeKm>>)>>)

\* The expanded range getTrackPointsInRange returns, or null.
NoExpandedRange == [isNull |-> TRUE, startKm |-> 0, endKm |-> 0]

\* paddingKm of getTrackPointsInRange: 10 metres.
paddingKm == 10 * TicksPerMeter

\* getTrackPointsInRange asking for the wider selection only when the span
\* holds no trackpoint at all.
getTrackPointsInRangeEmptyOnly(routeCoords, startKm, endKm) ==
    LET n == Len(routeCoords)
        inside == {i \in 1..n : /\ routeCoords[i].distance >= startKm
                                /\ routeCoords[i].distance <= endKm}
        pointCount == IF inside = {} THEN 0 ELSE MaxOf(inside) - MinOf(inside) + 1
        beyond == {i \in 1..n : /\ ~(routeCoords[i].distance < startKm)
                                /\ routeCoords[i].distance > endKm}
        stop == IF beyond = {} THEN n + 1 ELSE MinOf(beyond)
        before == {i \in 1..(stop - 1) : routeCoords[i].distance < startKm}
        prevIndex == IF before = {} THEN 1 ELSE MaxOf(before)
        nextIndex == IF beyond = {} THEN n ELSE stop
    IN  IF pointCount < 1
        THEN [pointCount |-> pointCount,
              expandedRange |->
                  [isNull |-> FALSE,
                   startKm |-> Max(0, routeCoords[prevIndex].distance - paddingKm),
                   endKm |-> Min(routeCoords[n].distance,
                                 routeCoords[nextIndex].distance + paddingKm)]]
        ELSE [pointCount |-> pointCount, expandedRange |-> NoExpandedRange]

\* BiketerraIntegration.getTrackPointsInRange: the number of trackpoints from
\* the first to the last one inside [startKm, endKm] and, when it is below
\* two, the range from the trackpoint before the span to the one after it,
\* padded.  stop is the index at which the second loop breaks.
getTrackPointsInRange(routeCoords, startKm, endKm) ==
    LET n == Len(routeCoords)
        inside == {i \in 1..n : /\ routeCoords[i].distance >= startKm
                                /\ routeCoords[i].distance <= endKm}
        pointCount == IF inside = {} THEN 0 ELSE MaxOf(inside) - MinOf(inside) + 1
        beyond == {i \in 1..n : /\ ~(routeCoords[i].distance < startKm)
                                /\ routeCoords[i].distance > endKm}
        stop == IF beyond = {} THEN n + 1 ELSE MinOf(beyond)
        before == {i \in 1..(stop - 1) : routeCoords[i].distance < startKm}
        prevIndex == IF before = {} THEN 1 ELSE MaxOf(before)
        nextIndex == IF beyond = {} THEN n ELSE stop
    IN  IF pointCount < 2
        THEN [pointCount |-> pointCount,
              expandedRange |->
                  [isNull |-> FALSE,
                   startKm |-> Max(0, routeCoords[prevIndex].distance - paddingKm),
                   endKm |-> Min(routeCoords[n].distance,
                                 routeCoords[nextIndex].distance + paddingKm)]]
        ELSE [pointCount |-> pointCount, expandedRange |-> NoExpandedRange]

\* maxRangeKm and maxIterations of zoomToBrunnel.
maxRangeKm == 1000 * TicksPerMeter
maxIterations == 50

\* The test of zoomToBrunnel's first loop: the midpoint of the brunnel is
\* outside the visible range (compared doubled, to stay in whole ticks).
zoomOutContinues(brunnel, visibleRange, iterations) ==
    /\ \/ brunnel.startDistance + brunnel.endDistance < 2 * visibleRange.startKm
       \/ brunnel.startDistance + brunnel.endDistance > 2 * visibleRange.endKm
    /\ iterations < maxIterations

\* The test of the second loop with <= for <.
zoomInContinuesOneMore(visibleRange, iterations) ==
    visibleRange.rangeKm > maxRangeKm /\ iterations <= maxIterations

\* The test of zoomToBrunnel's second loop.
zoomInContinues(visibleRange, iterations) ==
    visibleRange.rangeKm > maxRangeKm /\ iterations < maxIterations

\* The events the automation dispatches on the page.
Wheel(deltaY) == [kind |-> "wheel", deltaY |-> deltaY]
ContextMenu == [kind |-> "contextmenu"]
Click(type) == [kind |-> "click", type |-> type]

\* An async call in flight: the handler (or applyBrunnel called on its own),
\* where it awaits, the brunnels it applies and the one it is at, the locals
\* of zoomToBrunnel, the events the current applyBrunnel call dispatched,
\* and what the call it awaits settled with.
Task(fn, pc, sorted) ==
    [fn |-> fn, pc |-> pc, sorted |-> sorted, k |-> 1,
     visibleRange |-> NoRange, iterations |-> 0, events |-> <<>>,
     error |-> "none", result |-> <<>>]

RemoveAt(seq, t) == SubSeq(seq, 1, t - 1) \o SubSeq(seq, t + 1, Len(seq))

\* How often the brunnel id was marked on the page.
Marks(id) == IF id \in DOMAIN marked THEN marked[id] ELSE 0

\* Where applyBrunnel goes on when zoomToBrunnel has returned visibleRange:
\* the wider selection first when the span holds fewer than two trackpoints.
AfterZoom(task) ==
    LET brunnel == task.sorted[task.k]
        trackPointInfo == getTrackPointsInRange(route.coordinates,
                              brunnel.startDistance, brunnel.endDistance)
    IN  [task EXCEPT !.pc = IF trackPointInfo.expandedRange.isNull
                            THEN "simulateSelection"
                            ELSE "expandedSelection"]

\* Where zoomToBrunnel goes on with a reading of the chart: the loop step
\* whose test holds, or its return.  Once the first loop is left it is not
\* entered again.
AfterReading(task, reading, firstLoop) ==
    LET brunnel == task.sorted[task.k]
        read == [task EXCEPT !.visibleRange = reading]
    IN  IF firstLoop /\ zoomOutContinues(brunnel, reading, task.iterations)
        THEN [read EXCEPT !.pc = "zoomOut"]
        ELSE IF zoomInContinues(reading, task.iterations)
        THEN [read EXCEPT !.pc = "zoomIn"]
        ELSE AfterZoom(read)

\* applyBrunnel throws in task t: the catch block of the handler that awaits
\* it (the status line; Apply All is enabled again), or the rejection of
\* applyBrunnel called on its own.
ApplyThrows(t, task, error) ==
    /\ tasks' = IF task.fn = "applyBrunnel"
                THEN [tasks EXCEPT ![t] = [task EXCEPT !.pc = "threw",
                                                       !.error = error]]
                ELSE RemoveAt(tasks, t)
    /\ panel' = IF task.fn = "applyBrunnel" THEN panel
                ELSE IF task.fn = "handleApplyAllBrunnels"
                THEN [panel EXCEPT !.status = Status("error", error),
                                   !.applyBtn.disabled = FALSE]
                ELSE [panel EXCEPT !.status = Status("error", error)]
    /\ UNCHANGED <<locatedBrunnels, appliedBrunnelIds, totalDistance>>

\* applyBrunnel returns in task t.  handleApplySingleBrunnel marks the
\* brunnel as applied and disables Apply All when none remains;
\* applyAllBrunnels goes on with the next brunnel, and after the last one
\* handleApplyAllBrunnels marks them all.
ApplyReturns(t, task) ==
    LET brunnel == task.sorted[task.k]
        ids == {task.sorted[i].id : i \in 1..Len(task.sorted)}
    IN  IF task.fn = "applyBrunnel"
        THEN /\ tasks' = [tasks EXCEPT ![t] = [task EXCEPT !.pc = "returned"]]
             /\ UNCHANGED <<locatedBrunnels, appliedBrunnelIds, totalDistance, panel>>
        ELSE IF task.fn = "handleApplySingleBrunnel"
        THEN /\ tasks' = RemoveAt(tasks, t)
             /\ appliedBrunnelIds' = appliedBrunnelIds \cup {brunnel.id}
             /\ panel' = IF Len(locatedBrunnels) - Cardinality(appliedBrunnelIds') = 0
                         THEN [panel EXCEPT !.status = Status("success", "All applied"),
                                            !.applyBtn.disabled = TRUE]
                         ELSE [panel EXCEPT !.status = Status("success", "Applied")]
             /\ UNCHANGED <<locatedBrunnels, totalDistance>>
        ELSE IF task.k < Len(task.sorted)
        THEN /\ tasks' = [tasks EXCEPT ![t] =
                             [task EXCEPT !.k = task.k + 1,
                                          !.pc = "zoomToBrunnel",
                                          !.visibleRange = NoRange,
                                          !.iterations = 0,
                                          !.events = <<>>]]
             /\ UNCHANGED <<locatedBrunnels, appliedBrunnelIds, totalDistance, panel>>
        ELSE /\ tasks' = RemoveAt(tasks, t)
             /\ appliedBrunnelIds' = appliedBrunnelIds \cup ids
             /\ panel' = [panel EXCEPT !.status = Status("success", "Applied all")]
             /\ UNCHANGED <<locatedBrunnels, totalDistance>>

coreVars == <<route, brunnels, stage, overlapGroups, mergedGroups, located, call>>

\* zoomToBrunnel up to its first reading of the chart.  Without a chart, or
\* when the scale cannot be read, it returns null and applyBrunnel throws.
ZoomToBrunnel(t) ==
    /\ tasks[t].pc = "zoomToBrunnel"
    /\ IF ~page.chart
       THEN ApplyThrows(t, tasks[t], "Could not zoom to brunnel")
       ELSE \E reading \in page.readings :
               IF reading.isNull
               THEN ApplyThrows(t, tasks[t], "Could not zoom to brunnel")
               ELSE /\ tasks' = [tasks EXCEPT ![t] = AfterReading(tasks[t], reading, TRUE)]
                    /\ UNCHANGED <<locatedBrunnels, appliedBrunnelIds, totalDistance, panel>>
    /\ UNCHANGED <<coreVars, page, marked>>

\* One pass of a loop of zoomToBrunnel: a wheel event, then the next reading.
ZoomStep(t, deltaY, firstLoop) ==
    LET wheeled == [tasks[t] EXCEPT !.events = Append(@, Wheel(deltaY))]
    IN  /\ \E reading \in page.readings :
               IF reading.isNull
               THEN ApplyThrows(t, wheeled, "Could not zoom to brunnel")
               ELSE /\ tasks' = [tasks EXCEPT ![t] =
                                    AfterReading([wheeled EXCEPT !.iterations = @ + 1],
                                                 reading, firstLoop)]
                    /\ UNCHANGED <<locatedBrunnels, appliedBrunnelIds, totalDistance, panel>>
        /\ UNCHANGED <<coreVars, page, marked>>

\* Phase 1 of zoomToBrunnel: zoom out until the target is in the range.
ZoomOut(t) ==
    /\ tasks[t].pc = "zoomOut"
    /\ ZoomStep(t, 120, TRUE)

\* Phase 2 of zoomToBrunnel: zoom in until the range is at most 1 km.
ZoomIn(t) ==
    /\ tasks[t].pc = "zoomIn"
    /\ ZoomStep(t, -120, FALSE)

\* A simulateSelection call of applyBrunnel completes or throws.
SelectionStep(t, startKm, endKm, pc) ==
    LET outcome == simulateSelection(startKm, endKm, 0, tasks[t].visibleRange,
                                     page.chart, NoRange)
    IN  /\ IF outcome.threw # "none"
           THEN ApplyThrows(t, tasks[t], outcome.threw)
           ELSE /\ tasks' = [tasks EXCEPT ![t] =
                                [tasks[t] EXCEPT !.events = @ \o outcome.events,
                                                 !.pc = pc]]
                /\ UNCHANGED <<locatedBrunnels, appliedBrunnelIds, totalDistance, panel>>
        /\ UNCHANGED <<coreVars, page, marked>>

\* The selection of the expanded range (the workaround for a span of fewer
\* than two trackpoints).
ExpandedSelection(t) ==
    /\ tasks[t].pc = "expandedSelection"
    /\ LET brunnel == tasks[t].sorted[tasks[t].k]
           expandedRange == getTrackPointsInRange(route.coordinates,
                                brunnel.startDistance, brunnel.endDistance).expandedRange
       IN  SelectionStep(t, expandedRange.startKm, expandedRange.endKm,
                         "rightClickToDeselect")

\* rightClickToDeselect: a contextmenu event on the chart.
RightClickToDeselect(t) ==
    /\ tasks[t].pc = "rightClickToDeselect"
    /\ tasks' = [tasks EXCEPT ![t] =
                    [tasks[t] EXCEPT !.events = IF page.chart
                                                THEN Append(@, ContextMenu) ELSE @,
                                     !.pc = "simulateSelection"]]
    /\ UNCHANGED <<coreVars, locatedBrunnels, appliedBrunnelIds, totalDistance, panel, page, marked>>

\* The selection of the brunnel's own span.
SimulateSelectionOfSpan(t) ==
    /\ tasks[t].pc = "simulateSelection"
    /\ LET brunnel == tasks[t].sorted[tasks[t].k]
       IN  SelectionStep(t, brunnel.startDistance, brunnel.endDistance,
                         "clickBrunnelButton")

\* Largest number of times a brunnel is marked on the page.
MaxMarks == 2

\* clickBrunnelButton: the click on the toolbar's bridge or tunnel button
\* marks the selected span on the page's route; applyBrunnel returns.
ClickBrunnelButton(t) ==
    /\ tasks[t].pc = "clickBrunnelButton"
    /\ LET brunnel == tasks[t].sorted[tasks[t].k]
       IN  IF ~page.buttons
           THEN /\ ApplyThrows(t, tasks[t], "button not found")
                /\ UNCHANGED marked
           ELSE /\ Marks(brunnel.id) < MaxMarks
                /\ ApplyReturns(t, [tasks[t] EXCEPT !.events = Append(@, Click(brunnel.type))])
                /\ marked' = [id \in DOMAIN marked \cup {brunnel.id} |->
                                 IF id = brunnel.id THEN Marks(id) + 1 ELSE Marks(id)]
    /\ UNCHANGED <<coreVars, page>>

(***************************************************************************)
(* The functions of GeometryUtils, OverpassAPI and turf called on their     *)
(* own: call holds the function, its arguments and, once it returned, its  *)
(* result.                                                                 *)
(***************************************************************************)

\* The bearings of a call are the multiples of BearingStep degrees.
BearingStep == 15

\* Largest span end (in ticks) getRouteSegment is called with.
MaxSpanTicks == 46

\* A point of a nearestPointOnLine call lies up to MaxOffset grid steps
\* north of the first trackpoint.
MaxOffset == 3

\* Largest number of nodes of an Overpass way.
MaxNodes == 3

Bearings == {b \in 0..359 : b % BearingStep = 0}

\* The geometries of the candidates isAligned is called on: none, one
\* vertex, a way across the start of the route, a way along it.
CallGeometries(lat0) ==
    { <<>>,
      <<Pt(1, lat0)>>,
      <<Pt(1, lat0), Pt(1, lat0 + 1)>>,
      <<Pt(1, lat0), Pt(2, lat0)>> }

\* The route spans isAligned is called with.
CallSpans ==
    {NoSpan} \cup
    {Span(x, e) : x \in {0, TicksPerMeter},
                  e \in {TicksPerMeter, 3 * TicksPerMeter}} \cup
    {Span(x, x) : x \in {0, TicksPerMeter}}

\* The nodes of the ways of a raw Overpass answer (degrees).
RawNodes ==
    { [lat |-> Number(0), lon |-> Number(0)],
      [lat |-> Number(80), lon |-> Number(180)],
      [lat |-> Number(-80), lon |-> Number(-180)],
      [lat |-> Number(81), lon |-> Number(0)],
      [lat |-> Number(-81), lon |-> Number(0)],
      [lat |-> Number(0), lon |-> Number(181)],
      [lat |-> Number(0), lon |-> Number(-181)],
      [lat |-> NotANumber, lon |-> Number(0)] }

RawGeometries == UNION {[1..n -> RawNodes] : n \in 0..MaxNodes}

\* data.elements: counts 'count' elements and then one way.
RawElements(counts, geometry) ==
    [i \in 1..(counts + 1) |->
        IF i <= counts
        THEN [type |-> "count", id |-> 0, hasGeometry |-> FALSE,
              geometry |-> <<>>, name |-> <<>>]
        ELSE [type |-> "way", id |-> 1, hasGeometry |-> TRUE,
              geometry |-> geometry, name |-> <<"a">>]]

\* Largest number of elements of an Overpass answer that is classified.
MaxElements == 5

\* The elements of an Overpass answer: 'count' elements, ways with a valid
\* geometry, ways of a single node and nodes; the id of an element is its
\* place in the answer.
ElementKinds == {"count", "way", "short", "node"}

ElementOf(kind, i) ==
    [type |-> IF kind = "short" THEN "way" ELSE kind,
     id |-> i,
     hasGeometry |-> kind \in {"way", "short"},
     geometry |-> IF kind = "way"
                  THEN <<[lat |-> Number(0), lon |-> Number(0)],
                         [lat |-> Number(80), lon |-> Number(180)]>>
                  ELSE IF kind = "short"
                  THEN <<[lat |-> Number(0), lon |-> Number(0)]>>
                  ELSE <<>>,
     name |-> <<"a">>]

\* simple_route of a route running north-east from the 60th grid line, where
\* a step of longitude is half a step of latitude on the ground.
SlantRoute ==
    << <<60, 0, 0, 0>>,
       <<62, 2, 0, 2 * TicksPerMeter + 2>> >>

\* The polylines nearestPointOnLine is called on.
CallLines == Routes \cup {SlantRoute}

\* The visible ranges of the chart in a simulateSelection call: none, the
\* whole route, its first metres.
CallRanges ==
    {NoRange, VisibleRange(0, 4 * TicksPerMeter), VisibleRange(0, MaxSpanTicks)}

\* The values of options.units of a call.
UnitOptions ==
    {"undefined", "", "kilometers", "kilometres", "meters", "miles", "feet",
     "constructor"}

NewCall(fn, args) == [fn |-> fn, args |-> args, returned |-> FALSE, result |-> <<>>]

InitCalls ==
    /\ PanelCreated
    /\ page = NoPage
    /\ brunnels = <<>>
    /\ stage = "call"
    /\ overlapGroups = <<>>
    /\ mergedGroups = <<>>
    /\ located = <<>>
    /\ \/ \E simpleRoute \in Routes, startDist, endDist \in -1..MaxSpanTicks :
              /\ route = parseRouteData(simpleRoute)
              /\ call = NewCall("getRouteSegment",
                                [startDist |-> startDist, endDist |-> endDist])
       \/ \E simpleRoute \in Routes :
          \E n \in 0..Len(simpleRoute),
             geometry \in CallGeometries(simpleRoute[1][1]),
             span \in CallSpans, tolerance \in {0, bearingTolerance} :
              /\ route = parseRouteData(simpleRoute)
              /\ call = NewCall("isAligned",
                     [brunnel |-> [Brunnel([id |-> 1, type |-> "bridge",
                                            name |-> <<"a">>,
                                            geometry |-> geometry])
                                      EXCEPT !.routeSpan = span],
                      routePoints |-> n,
                      toleranceDegrees |-> tolerance])
       \/ \E bearing1 \in Bearings :
          \E bearing2 \in Bearings \cup {bearing1 + 180, (bearing1 + 180) % 360} :
              /\ route = parseRouteData(EquatorRoute)
              /\ call = NewCall("getBearingDifference",
                                [bearing1 |-> bearing1, bearing2 |-> bearing2])
       \/ \E counts \in 0..2, geometry \in RawGeometries :
              /\ route = parseRouteData(EquatorRoute)
              /\ call = NewCall("processOverpassData",
                                [elements |-> RawElements(counts, geometry)])
       \/ \E n \in 0..MaxElements :
          \E kinds \in [1..n -> ElementKinds] :
              /\ route = parseRouteData(EquatorRoute)
              /\ call = NewCall("queryBrunnels",
                                [elements |-> [i \in 1..n |-> ElementOf(kinds[i], i)]])
       \/ \E startKm \in {0, TicksPerMeter}, endKm \in {2 * TicksPerMeter, MaxSpanTicks},
             visibleRange \in CallRanges, chart \in BOOLEAN, reading \in CallRanges :
              /\ route = parseRouteData(EquatorRoute)
              /\ call = NewCall("simulateSelection",
                                [startKm |-> startKm, endKm |-> endKm,
                                 totalDistanceKm |-> route.totalDistance,
                                 visibleRange |-> visibleRange,
                                 chart |-> chart, reading |-> reading])
       \/ \E units \in UnitOptions, lon \in 0..MaxOffset :
              /\ route = parseRouteData(EquatorRoute)
              /\ call = NewCall("distance",
                                [from |-> Pt(0, 0), to |-> Pt(lon, 1),
                                 options |-> [units |-> units]])
       \/ \E simpleRoute \in CallLines, lon \in -1..5, offset \in -1..MaxOffset :
              /\ route = parseRouteData(simpleRoute)
              /\ call = NewCall("nearestPointOnLine",
                                [pt |-> Pt(lon, simpleRoute[1][1] + offset)])

Returns(fn, result) ==
    /\ stage = "call"
    /\ call.fn = fn
    /\ ~call.returned
    /\ call' = [call EXCEPT !.returned = TRUE, !.result = result]
    /\ UNCHANGED <<route, brunnels, stage, overlapGroups, mergedGroups, located>>
    /\ UNCHANGED uiVars

GetRouteSegment ==
    /\ stage = "call" /\ call.fn = "getRouteSegment"
    /\ Returns("getRouteSegment",
               getRouteSegment(route.coordinates,
                               calculateCumulativeDistances(route.coordinates),
                               call.args.startDist, call.args.endDist))

\* brunnel.isAligned(...) and what filterAligned leaves in exclusionReason.
IsAligned ==
    /\ stage = "call" /\ call.fn = "isAligned"
    /\ LET routeCoords == SubSeq(route.coordinates, 1, call.args.routePoints)
           cumulativeDistances == calculateCumulativeDistances(routeCoords)
       IN  Returns("isAligned",
               [aligned |-> isAligned(call.args.brunnel, routeCoords,
                                      cumulativeDistances,
                                      call.args.toleranceDegrees),
                exclusionReason |->
                    filterAligned(<<call.args.brunnel>>, routeCoords,
                                  cumulativeDistances,
                                  call.args.toleranceDegrees)[1].exclusionReason])

GetBearingDifference ==
    /\ stage = "call" /\ call.fn = "getBearingDifference"
    /\ Returns("getBearingDifference",
               getBearingDifference(call.args.bearing1, call.args.bearing2))

\* processOverpassData(data), and validateGeometry of the way's geometry.
ProcessOverpassData ==
    /\ stage = "call" /\ call.fn = "processOverpassData"
    /\ Returns("processOverpassData",
               [brunnels |-> processOverpassData(call.args),
                validGeometry |->
                    validateGeometry(
                        call.args.elements[Len(call.args.elements)].geometry)])

\* The tail of OverpassAPI.queryBrunnels (processOverpassData of the answer)
\* and Brunnel.fromOverpassData of what it returns.
QueryBrunnels ==
    /\ stage = "call" /\ call.fn = "queryBrunnels"
    /\ LET overpassData == processOverpassData(call.args)
       IN  Returns("queryBrunnels",
                   [overpassData |-> overpassData,
                    brunnels |-> fromOverpassData(overpassData)])

SimulateSelection ==
    /\ stage = "call" /\ call.fn = "simulateSelection"
    /\ Returns("simulateSelection",
               simulateSelection(call.args.startKm, call.args.endKm,
                                 call.args.totalDistanceKm,
                                 call.args.visibleRange,
                                 call.args.chart, call.args.reading))

Distance ==
    /\ stage = "call" /\ call.fn = "distance"
    /\ Returns("distance",
               distanceWithOptions(call.args.from, call.args.to,
                                   call.args.options))

NearestPointOnLine ==
    /\ stage = "call" /\ call.fn = "nearestPointOnLine"
    /\ Returns("nearestPointOnLine",
               nearestPointOnLine(route.turfLineString, call.args.pt))

NextCalls ==
    \/ GetRouteSegment
    \/ IsAligned
    \/ GetBearingDifference
    \/ ProcessOverpassData
    \/ QueryBrunnels
    \/ SimulateSelection
    \/ Distance
    \/ NearestPointOnLine

SpecCalls == InitCalls /\ [][NextCalls]_vars

(***************************************************************************)
(* BiketerraIntegration.applyBrunnel called on its own, on a page whose    *)
(* chart may report any of a few visible ranges at every reading.          *)
(***************************************************************************)

\* Readings of the chart's scale: a range ahead of the route's first metres,
\* one of 2 km and one of 1 km that hold them, and a scale that cannot be
\* read.
AllReadings ==
    {NoRange,
     VisibleRange(5 * maxRangeKm, 6 * maxRangeKm),
     VisibleRange(0, 2 * maxRangeKm),
     VisibleRange(0, maxRangeKm)}

\* A page with a chart that reports the readings, with or without the
\* toolbar buttons.
Page(readings, buttons) == [chart |-> TRUE, readings |-> readings, buttons |-> buttons]

\* A located brunnel as the panel holds it.
Located(id, type, startDistance, endDistance) ==
    [id |-> id, type |-> type, name |-> <<"a">>,
     startDistance |-> startDistance, endDistance |-> endDistance]

\* The brunnels applyBrunnel is called with: spans holding one, three, no
\* and two trackpoints of the route.
ApplyBrunnels ==
    {Located(1, "bridge", 0, 0),
     Located(2, "bridge", 0, 2 * TicksPerMeter),
     Located(3, "tunnel", TicksPerMeter + 5, TicksPerMeter + 8),
     Located(4, "tunnel", 2 * TicksPerMeter, 3 * TicksPerMeter)}

InitApply ==
    \E brunnel \in ApplyBrunnels,
       p \in {Page(AllReadings, TRUE),
              Page({VisibleRange(0, maxRangeKm)}, FALSE),
              NoPage} :
        /\ route = parseRouteData(EquatorRoute)
        /\ brunnels = <<>>
        /\ stage = "applyBrunnel"
        /\ overlapGroups = <<>>
        /\ mergedGroups = <<>>
        /\ located = <<>>
        /\ call = NoCall
        /\ locatedBrunnels = <<>>
        /\ appliedBrunnelIds = {}
        /\ totalDistance = 0
        /\ panel = [locateBtn |-> [disabled |-> FALSE],
                    applyBtn |-> [disabled |-> TRUE],
                    status |-> Status("", "Ready")]
        /\ tasks = <<Task("applyBrunnel", "zoomToBrunnel", <<brunnel>>)>>
        /\ page = p
        /\ marked = <<>>

NextApply ==
    \/ ZoomToBrunnel(1)
    \/ ZoomOut(1)
    \/ ZoomIn(1)
    \/ ExpandedSelection(1)
    \/ RightClickToDeselect(1)
    \/ SimulateSelectionOfSpan(1)
    \/ ClickBrunnelButton(1)

SpecApply == InitApply /\ [][NextApply]_vars

\* The awaits of applyBrunnel are animation frames and timers of the page:
\* each is served in the end.
SpecApplyFair == SpecApply /\ WF_vars(NextApply)

(***************************************************************************)
(* The overlay panel: the click handlers of its buttons and result items   *)
(* and the input listener of its options.  A handler runs up to its next   *)
(* await in one step; the continuation of a settled locateBrunnels() is a  *)
(* microtask and runs before any other event is served.                    *)
(***************************************************************************)

\* Largest number of handlers awaiting at once.
MaxTasks == 2

\* locateBrunnels(options) from one of its steps on, with the Brunnel
\* instances and the route as they are there: filterContained,
\* calculateRouteSpans, filterAligned, handleOverlaps, the included brunnels
\* merged, and the simplified result.
RECURSIVE LocateFrom(_, _, _)
LocateFrom(step, instances, parsed) ==
    CHOOSE result \in
        {CASE step = "created" ->
                  LocateFrom("contained",
                             filterContained(bs, r, routeBuffer).brunnels, r)
           [] step = "contained" ->
                  LocateFrom("spanned", calculateRouteSpans(bs, r), r)
           [] step = "spanned" ->
                  LocateFrom("aligned",
                             filterAligned(bs, r.coordinates, cumulativeDistances,
                                           bearingTolerance), r)
           [] step = "aligned" ->
                  LocateFrom("resolved", handleOverlaps(bs, r).brunnels, r)
           [] step = "resolved" ->
                  LocateFrom("included", SelectSeq(bs, IncludedWithSpan), r)
           [] step = "included" ->
                  LocateFrom("merged", mergeAdjacentBrunnels(bs), r)
           [] OTHER ->
                  [brunnels |-> [i \in 1..Len(bs) |->
                                    [id |-> bs[i].id,
                                     type |-> bs[i].type,
                                     name |-> bs[i].name,
                                     startDistance |-> bs[i].routeSpan.startDistance,
                                     endDistance |-> bs[i].routeSpan.endDistance]],
                   totalDistance |-> r.totalDistance]
         : bs \in {instances}, r \in {parsed},
           cumulativeDistances \in {calculateCumulativeDistances(parsed.coordinates)}} : TRUE

\* locateBrunnels(options) on a route and an Overpass answer.
locateBrunnels(simpleRoute, overpassData) ==
    LocateFrom("created", fromOverpassData(overpassData), parseRouteData(simpleRoute))

\* The way of Ways(0) with the id.
WayWithId(id) == CHOOSE w \in Ways(0) : w.id = id

\* Overpass answers around EquatorRoute: nothing, and a bridge and a tunnel
\* along the route.
PanelAnswers ==
    {[bridges |-> <<>>, tunnels |-> <<>>],
     [bridges |-> <<WayWithId(3)>>, tunnels |-> <<WayWithId(5)>>]}

\* What locateBrunnels() returns for these answers.
PanelResults == {locateBrunnels(EquatorRoute, overpassData) : overpassData \in PanelAnswers}

\* What locateBrunnels() throws when the route or the Overpass answer
\* cannot be fetched.
LocateErrors == {"Overpass API error"}

\* [...remaining].sort((a, b) => a.startDistance - b.startDistance)
RECURSIVE InsertByStartDistance(_, _)
InsertByStartDistance(sorted, x) ==
    IF sorted = <<>> THEN <<x>>
    ELSE IF x.startDistance < Head(sorted).startDistance
         THEN <<x>> \o sorted
         ELSE <<Head(sorted)>> \o InsertByStartDistance(Tail(sorted), x)

RECURSIVE SortByStartDistance(_, _)
SortByStartDistance(remaining, i) ==
    IF i = 0 THEN <<>>
    ELSE InsertByStartDistance(SortByStartDistance(remaining, i - 1), remaining[i])

\* b => !appliedBrunnelIds.has(b.id)
NotApplied(b) == b.id \notin appliedBrunnelIds

\* A settled promise whose continuation has not run yet.
Settled(task) == task.pc \in {"fulfilled", "rejected"}

\* No continuation is due: the event loop serves the next event.
EventLoopIdle == \A t \in 1..Len(tasks) : ~Settled(tasks[t])

\* The catch block of handleLocateBrunnels without the last line.
locateFailedButtonLeft(p, error) == [p EXCEPT !.status = Status("error", error)]

\* The catch block of handleLocateBrunnels.
locateFailed(p, error) ==
    [p EXCEPT !.status = Status("error", error),
              !.locateBtn.disabled = FALSE]

\* handleLocateBrunnels up to its await.
ClickLocate ==
    /\ stage = "panel"
    /\ EventLoopIdle
    /\ ~panel.locateBtn.disabled
    /\ Len(tasks) < MaxTasks
    /\ panel' = [panel EXCEPT !.status = Status("loading", "Locating brunnels..."),
                              !.locateBtn.disabled = TRUE]
    /\ tasks' = Append(tasks, Task("handleLocateBrunnels", "locateBrunnels", <<>>))
    /\ UNCHANGED <<coreVars, locatedBrunnels, appliedBrunnelIds, totalDistance, page, marked>>

\* locateBrunnels() settles: with the result for the Overpass answer, or
\* with an error.
LocateSettles(t) ==
    /\ EventLoopIdle
    /\ tasks[t].fn = "handleLocateBrunnels"
    /\ tasks[t].pc = "locateBrunnels"
    /\ \/ \E result \in PanelResults :
              tasks' = [tasks EXCEPT ![t] =
                           [tasks[t] EXCEPT !.pc = "fulfilled", !.result = result]]
       \/ \E error \in LocateErrors :
              tasks' = [tasks EXCEPT ![t] =
                           [tasks[t] EXCEPT !.pc = "rejected", !.error = error]]
    /\ UNCHANGED <<coreVars, locatedBrunnels, appliedBrunnelIds, totalDistance, panel, page, marked>>

\* handleLocateBrunnels after its await: the rest of the try block, or the
\* catch block.  marked counts from the last locate that succeeded.
LocateResumes(t) ==
    /\ tasks[t].fn = "handleLocateBrunnels"
    /\ Settled(tasks[t])
    /\ tasks' = RemoveAt(tasks, t)
    /\ IF tasks[t].pc = "fulfilled"
       THEN /\ locatedBrunnels' = tasks[t].result.brunnels
            /\ totalDistance' = tasks[t].result.totalDistance
            /\ appliedBrunnelIds' = {}
            /\ panel' = [panel EXCEPT
                            !.status = Status("success", "Found"),
                            !.applyBtn.disabled = (Len(locatedBrunnels') = 0)]
       ELSE /\ panel' = locateFailed(panel, tasks[t].error)
            /\ UNCHANGED <<locatedBrunnels, appliedBrunnelIds, totalDistance>>
    /\ marked' = IF tasks[t].pc = "fulfilled" THEN <<>> ELSE marked
    /\ UNCHANGED <<coreVars, page>>

\* The input listener of the option fields.
EditOption ==
    /\ stage = "panel"
    /\ EventLoopIdle
    /\ panel' = [panel EXCEPT !.locateBtn.disabled = FALSE]
    /\ UNCHANGED <<coreVars, locatedBrunnels, appliedBrunnelIds, totalDistance, tasks, page, marked>>

\* handleApplySingleBrunnel for the click on the item of locatedBrunnels[i],
\* up to the zoomToBrunnel call of applyBrunnel: loadTurf() and
\* fetchRouteData() write nothing of the panel.
ClickItem(i) ==
    /\ stage = "panel"
    /\ EventLoopIdle
    /\ i \in 1..Len(locatedBrunnels)
    /\ Len(tasks) < MaxTasks
    /\ IF locatedBrunnels[i].id \in appliedBrunnelIds
       THEN UNCHANGED <<panel, tasks>>
       ELSE /\ panel' = [panel EXCEPT !.status = Status("loading", "Applying")]
            /\ tasks' = Append(tasks, Task("handleApplySingleBrunnel", "zoomToBrunnel",
                                           <<locatedBrunnels[i]>>))
    /\ UNCHANGED <<coreVars, locatedBrunnels, appliedBrunnelIds, totalDistance, page, marked>>

\* handleApplyAllBrunnels up to the zoomToBrunnel call of the first
\* applyBrunnel.
ClickApplyAll ==
    /\ stage = "panel"
    /\ EventLoopIdle
    /\ ~panel.applyBtn.disabled
    /\ Len(tasks) < MaxTasks
    /\ LET remaining == SelectSeq(locatedBrunnels, NotApplied)
       IN  IF Len(remaining) = 0
           THEN /\ panel' = [panel EXCEPT !.applyBtn.disabled = TRUE]
                /\ UNCHANGED tasks
           ELSE /\ panel' = [panel EXCEPT
                                !.status = Status("loading", "Applying brunnels..."),
                                !.applyBtn.disabled = TRUE]
                /\ tasks' = Append(tasks,
                                Task("handleApplyAllBrunnels", "zoomToBrunnel",
                                     SortByStartDistance(remaining, Len(remaining))))
    /\ UNCHANGED <<coreVars, locatedBrunnels, appliedBrunnelIds, totalDistance, page, marked>>

\* The page of the panel: the chart shows the first kilometre, or its scale
\* cannot be read, at any reading.
PanelPage == Page({VisibleRange(0, maxRangeKm), NoRange}, TRUE)

InitPanel ==
        /\ route = parseRouteData(EquatorRoute)
        /\ brunnels = <<>>
        /\ stage = "panel"
        /\ overlapGroups = <<>>
        /\ mergedGroups = <<>>
        /\ located = <<>>
        /\ call = NoCall
        /\ PanelCreated
        /\ page = PanelPage

\* The chart of this page shows a range of 1 km that holds the brunnel, and
\* the spans hold two trackpoints or more: the loops of zoomToBrunnel and
\* the wider selection take no step.
NextPanel ==
    \/ ClickLocate
    \/ EditOption
    \/ ClickApplyAll
    \/ \E i \in 1..MaxBrunnels : ClickItem(i)
    \/ \E t \in 1..Len(tasks) :
          \/ LocateSettles(t)
          \/ LocateResumes(t)
          \/ EventLoopIdle /\ ZoomToBrunnel(t)
          \/ EventLoopIdle /\ SimulateSelectionOfSpan(t)
          \/ EventLoopIdle /\ ClickBrunnelButton(t)

SpecPanel == InitPanel /\ [][NextPanel]_vars

(***************************************************************************)
(* Properties                                                              *)
(***************************************************************************)

\* The distance from a point to the route polyline: the least of the
\* distances to its projections on the segments.
RouteDistance(v) ==
    LET line == route.turfLineString
    IN  MinOf({distance(pointOnSegment(line[i], line[i + 1], v).point, v) :
                  i \in 1..(Len(line) - 1)})

VerticesBeyondBuffer(b) ==
    {i \in 1..Len(b.geometry) :
        RouteDistance(b.geometry[i]) > routeBuffer * TicksPerMeter}

\* C1: after the Containment Filter a candidate whose every vertex is within
\* the buffer of the route has no exclusion reason and is in the array
\* filterContained returns; a candidate with a vertex beyond the buffer has
\* exclusion reason 'outlier' and is not in that array.
C1_ContainmentFilter ==
    /\ stage = "contained" =>
          \A i \in 1..Len(brunnels) :
              IF VerticesBeyondBuffer(brunnels[i]) = {}
              THEN brunnels[i].exclusionReason = "null"
              ELSE brunnels[i].exclusionReason = "outlier"
    /\ stage = "created" =>
          LET returned == filterContained(brunnels, route, routeBuffer).returned
          IN  \A i \in 1..Len(brunnels) :
                  (VerticesBeyondBuffer(brunnels[i]) = {})
                      <=> \E k \in 1..Len(returned) :
                              returned[k].id = brunnels[i].id

\* C1 witness: the filter ran on a candidate it keeps, one vertex of which is
\* at exactly the buffer distance, and on a candidate it marks because of
\* one vertex only.
C1_Witness ==
    /\ stage = "contained"
    /\ \E i \in 1..Len(brunnels) :
          /\ brunnels[i].exclusionReason = "null"
          /\ \E v \in 1..Len(brunnels[i].geometry) :
                RouteDistance(brunnels[i].geometry[v])
                    = routeBuffer * TicksPerMeter
    /\ \E j \in 1..Len(brunnels) :
          /\ brunnels[j].exclusionReason = "outlier"
          /\ VerticesBeyondBuffer(brunnels[j]) # {}
          /\ VerticesBeyondBuffer(brunnels[j]) # 1..Len(brunnels[j].geometry)

\* C2 (as claimed): a candidate marked 'outlier' has no route span when the
\* pipeline ends.
C2_OutlierHasNoSpan ==
    stage = "done" =>
        \A i \in 1..Len(brunnels) :
            brunnels[i].exclusionReason = "outlier" => brunnels[i].routeSpan.isNull

\* C3 (as claimed): the list locateBrunnels returns is ordered by start
\* distance.
C3_LocatedOrdered ==
    stage = "done" =>
        \A i \in 1..(Len(located) - 1) :
            located[i].startDistance <= located[i + 1].startDistance

\* Two spans share more than a point of the route: the intersection of the
\* open intervals, or of one with a zero-width span strictly inside it.
SpansIntersect(a, b) ==
    a.startDistance < b.endDistance /\ b.startDistance < a.endDistance

\* C4 (as claimed): after handleOverlaps no two included candidates have
\* overlapping spans.
C4_IncludedDisjoint ==
    stage = "resolved" =>
        \A i, j \in 1..Len(brunnels) :
            (/\ i # j
             /\ IncludedWithSpan(brunnels[i])
             /\ IncludedWithSpan(brunnels[j]))
                => ~SpansIntersect(brunnels[i].routeSpan, brunnels[j].routeSpan)

\* The members of the overlap groups.
GroupMembers(g) == {overlapGroups[g][k] : k \in 1..Len(overlapGroups[g])}

\* The candidates handleOverlaps grouped: those that were included and had
\* a span when it started.
Grouped == {i \in 1..Len(brunnels) :
               /\ brunnels[i].exclusionReason \in {"null", "alternative"}
               /\ ~brunnels[i].routeSpan.isNull}

\* C5 (as claimed): the spans of any two members of an overlap group overlap.
C5_GroupsPairwiseOverlap ==
    stage = "resolved" =>
        \A g \in 1..Len(overlapGroups) :
            \A a, b \in GroupMembers(g) :
                a # b => SpansIntersect(brunnels[a].routeSpan,
                                        brunnels[b].routeSpan)

\* C5 (amended): every overlap group consists of candidates that were
\* included and spanned, and each member but the first overlaps a member
\* that joined the group before it.
C5_GroupsChained ==
    stage = "resolved" =>
        \A g \in 1..Len(overlapGroups) :
            /\ GroupMembers(g) \subseteq Grouped
            /\ \A k \in 2..Len(overlapGroups[g]) :
                  \E h \in 1..(k - 1) :
                      SpansIntersect(brunnels[overlapGroups[g][k]].routeSpan,
                                     brunnels[overlapGroups[g][h]].routeSpan)

\* C5 witness: a group of three members, two of which do not overlap.
C5_Witness ==
    /\ stage = "resolved"
    /\ \E g \in 1..Len(overlapGroups) :
          /\ Len(overlapGroups[g]) = 3
          /\ \E a, b \in GroupMembers(g) :
                /\ a # b
                /\ ~SpansIntersect(brunnels[a].routeSpan, brunnels[b].routeSpan)

\* The average distance of the vertices of brunnels[i] to the route, as the
\* fraction <<sum, count>>.
AverageRouteDistance(i) ==
    <<SumDistanceToRoute(brunnels[i], route, 1), Len(brunnels[i].geometry)>>

\* C6: after handleOverlaps every overlap group of more than one member has
\* exactly one included member, no member of the group is closer to the
\* route on average than that one, and the others are 'alternative'; the
\* member of a group of one is still included.
C6_GroupSurvivor ==
    stage = "resolved" =>
        \A g \in 1..Len(overlapGroups) :
            LET kept == {m \in GroupMembers(g) : isIncluded(brunnels[m])}
            IN  /\ Cardinality(kept) = 1
                /\ \A m \in GroupMembers(g) \ kept :
                      brunnels[m].exclusionReason = "alternative"
                /\ \A s \in kept : \A m \in GroupMembers(g) :
                      ~AvgLess(AverageRouteDistance(m), AverageRouteDistance(s))

\* C6 witness: a group of two or more whose members are at different average
\* distances, and a group of one.
C6_Witness ==
    /\ stage = "resolved"
    /\ \E g \in 1..Len(overlapGroups) :
          /\ Len(overlapGroups[g]) > 1
          /\ \E a, b \in GroupMembers(g) :
                AvgLess(AverageRouteDistance(a), AverageRouteDistance(b))
    /\ \E g \in 1..Len(overlapGroups) : Len(overlapGroups[g]) = 1

\* The groups that hold a member which was scanned before candidate i and
\* whose span intersects the span of i.
JoinableGroups(i) ==
    {g \in 1..Len(overlapGroups) :
        \E m \in GroupMembers(g) :
            m < i /\ SpansIntersect(brunnels[i].routeSpan, brunnels[m].routeSpan)}

\* C7: the overlap groups are those of one left-to-right scan of the
\* included, spanned candidates: every such candidate is in exactly one
\* group, in the first group that held an overlapping member when it was
\* scanned, or at the head of a new group, appended behind the others, when
\* there was none; spans that only touch at an endpoint do not overlap, and
\* the overlap test is symmetric.
C7_GroupingScan ==
    stage = "resolved" =>
        /\ \A g \in 1..Len(overlapGroups) :
              /\ GroupMembers(g) \subseteq Grouped
              /\ \A k \in 1..(Len(overlapGroups[g]) - 1) :
                    overlapGroups[g][k] < overlapGroups[g][k + 1]
              /\ \A h \in 1..(g - 1) : overlapGroups[h][1] < overlapGroups[g][1]
        /\ \A i \in Grouped :
              LET in == {g \in 1..Len(overlapGroups) : i \in GroupMembers(g)}
                  joinable == JoinableGroups(i)
              IN  /\ Cardinality(in) = 1
                  /\ \A g \in in :
                        IF joinable = {} THEN overlapGroups[g][1] = i
                        ELSE g = MinOf(joinable)
        /\ \A i, j \in 1..Len(brunnels) :
              LET a == brunnels[i].routeSpan
                  b == brunnels[j].routeSpan
              IN  /\ routeSpansOverlap(a, b) = routeSpansOverlap(b, a)
                  /\ a.endDistance = b.startDistance => ~routeSpansOverlap(a, b)
                  /\ routeSpansOverlap(a, b) <=> SpansIntersect(a, b)

\* C7 witness: a candidate joined a group that was not the newest one, and
\* two grouped candidates whose spans touch at an endpoint are in different
\* groups.
C7_Witness ==
    /\ stage = "resolved"
    /\ \E g \in 1..Len(overlapGroups) :
          /\ g < Len(overlapGroups)
          /\ \E k \in 2..Len(overlapGroups[g]) :
                overlapGroups[g][k] > overlapGroups[g + 1][1]
    /\ \E i, j \in Grouped :
          /\ brunnels[i].routeSpan.startDistance < brunnels[i].routeSpan.endDistance
          /\ brunnels[i].routeSpan.endDistance = brunnels[j].routeSpan.startDistance
          /\ brunnels[j].routeSpan.startDistance < brunnels[j].routeSpan.endDistance
          /\ \A g \in 1..Len(overlapGroups) : ~({i, j} \subseteq GroupMembers(g))

\* The great-circle length of the route polyline up to its vertex i.
RECURSIVE LineLengthTo(_)
LineLengthTo(i) ==
    IF i <= 1 THEN 0
    ELSE LineLengthTo(i - 1)
             + distance(route.turfLineString[i - 1], route.turfLineString[i])

\* The great-circle lengths of the route polyline up to each of its vertices.
LineLengths == [i \in 1..Len(route.turfLineString) |-> LineLengthTo(i)]

\* d lies between the reference distances of the ends of a segment that
\* holds the location loc of the polyline, whose lengths are lengths.
InBracket(lengths, loc, d) ==
    \E k \in 1..(Len(route.coordinates) - 1) :
        /\ lengths[k] <= loc
        /\ loc <= lengths[k + 1]
        /\ route.coordinates[k].distance <= d
        /\ d <= route.coordinates[k + 1].distance

\* C8: on a route whose reference distances start at 0 and never decrease,
\* the span calculateRouteSpan gives a candidate with a vertex satisfies
\* 0 <= startDistance <= endDistance <= totalDistance, and its two ends are
\* the interpolations of the projections of the first and of the last
\* vertex, each between the reference distances of the ends of the segment
\* that brackets the projection.
C8_RouteSpanBounds ==
    stage \in {"spanned", "aligned", "resolved"} =>
        LET lengths == LineLengths
        IN  \A i \in 1..Len(brunnels) :
            LET b == brunnels[i]
                s == b.routeSpan
                first == nearestPointOnLine(route.turfLineString,
                                            b.geometry[1]).location
                last == nearestPointOnLine(route.turfLineString,
                                           b.geometry[Len(b.geometry)]).location
            IN  Len(b.geometry) >= 1 =>
                    /\ ~s.isNull
                    /\ 0 <= s.startDistance
                    /\ s.startDistance <= s.endDistance
                    /\ s.endDistance <= route.totalDistance
                    /\ \/ InBracket(lengths, first, s.startDistance)
                          /\ InBracket(lengths, last, s.endDistance)
                       \/ InBracket(lengths, first, s.endDistance)
                          /\ InBracket(lengths, last, s.startDistance)

\* C8 witness: spans were calculated on a route whose reference distances
\* differ from its great-circle lengths, for a candidate drawn against the
\* direction of the route and for one an end of which falls strictly inside
\* a segment.
C8_Witness ==
    /\ stage = "spanned"
    /\ route.totalDistance # LineLengthTo(Len(route.coordinates))
    /\ \E i \in 1..Len(brunnels) :
          nearestPointOnLine(route.turfLineString,
              brunnels[i].geometry[1]).location
            > nearestPointOnLine(route.turfLineString,
                  brunnels[i].geometry[Len(brunnels[i].geometry)]).location
    /\ \E i \in 1..Len(brunnels) :
          \A k \in 1..Len(route.coordinates) :
              brunnels[i].routeSpan.endDistance # route.coordinates[k].distance

\* C9 (as claimed): the segment turfLocationToBiketerraDistance interpolates
\* in is the first one up to and including which the polyline is at least
\* turfLoc long, or the last one when there is none, and in both cases t is
\* (turfLoc - length before the segment) / segment length clamped to [0,1],
\* and 0 on a segment of zero length.
C9_BracketAndFraction ==
    call.returned =>
        LET n == Len(route.coordinates)
            reach == {k \in 1..(n - 1) : LineLengthTo(k + 1) >= call.turfLocationKm}
            chosen == IF reach = {} THEN n - 1 ELSE MinOf(reach)
            before == LineLengthTo(chosen)
            length == LineLengthTo(chosen + 1) - before
        IN  /\ call.segmentIndex + 1 = chosen
            /\ IF length = 0 THEN call.tNum = 0
               ELSE call.tNum * length
                      = call.tDen * Min(length, Max(0, call.turfLocationKm - before))

\* The claim of C9 where a segment reaches turfLoc.
C9_BracketWithinRoute ==
    (call.returned /\ call.turfLocationKm <= LineLengthTo(Len(route.coordinates)))
        => C9_BracketAndFraction

\* The largest endDistance among the first k members of a merge group.
GroupEnd(group, k) == MaxOf({group[m].routeSpan.endDistance : m \in 1..k})

\* C10 (as claimed): within one type a candidate is in the group of its
\* predecessor in start order exactly when its start is at most 0.001 km
\* behind the largest endDistance of the members already in the group, so
\* any two same-type entries of the merged output are more than 0.001 km
\* apart.
C10_MergeFoldRule ==
    stage = "done" =>
        /\ \A g \in 1..Len(mergedGroups) :
              \A k \in 2..Len(mergedGroups[g]) :
                  mergedGroups[g][k].routeSpan.startDistance
                      - GroupEnd(mergedGroups[g], k - 1) <= MergeGapKm
        /\ \A g \in 1..(Len(mergedGroups) - 1) :
              mergedGroups[g][1].type = mergedGroups[g + 1][1].type =>
                  mergedGroups[g + 1][1].routeSpan.startDistance
                      - GroupEnd(mergedGroups[g], Len(mergedGroups[g]))
                          > MergeGapKm
        /\ \A i, j \in 1..Len(located) :
              (/\ i # j
               /\ located[i].type = located[j].type
               /\ located[i].startDistance <= located[j].startDistance)
                  => located[j].startDistance - located[i].endDistance
                         > MergeGapKm

\* The candidates the merge was given, group by group.
RECURSIVE Flatten(_)
Flatten(groups) ==
    IF groups = <<>> THEN <<>> ELSE Head(groups) \o Flatten(Tail(groups))

\* The entries locateBrunnels returns for the merged candidates.
Entries(merged) ==
    [i \in 1..Len(merged) |->
        [id |-> merged[i].id, type |-> merged[i].type, name |-> merged[i].name,
         startDistance |-> merged[i].routeSpan.startDistance,
         endDistance |-> merged[i].routeSpan.endDistance]]

\* C11: the merge never puts a bridge and a tunnel into one group, every
\* entry of the output has the type of the members of its group, and the
\* bridge entries are those the merge gives for the bridge inputs alone, the
\* tunnel entries those it gives for the tunnel inputs alone.
C11_MergePerType ==
    stage = "done" =>
        LET inputs == Flatten(mergedGroups)
        IN  /\ Len(located) = Len(mergedGroups)
            /\ \A g \in 1..Len(mergedGroups) :
                  \A k \in 1..Len(mergedGroups[g]) :
                      mergedGroups[g][k].type = located[g].type
            /\ SelectSeq(located, IsBridge)
                  = Entries(mergeAdjacentBrunnels(SelectSeq(inputs, IsBridge)))
            /\ SelectSeq(located, IsTunnel)
                  = Entries(mergeAdjacentBrunnels(SelectSeq(inputs, IsTunnel)))

\* C11 witness: the output holds a bridge and a tunnel whose spans are
\* adjacent, and an entry merged from two candidates.
C11_Witness ==
    /\ stage = "done"
    /\ \E i, j \in 1..Len(located) :
          /\ located[i].type = "bridge"
          /\ located[j].type = "tunnel"
          /\ \/ located[i].endDistance = located[j].startDistance
             \/ located[j].endDistance = located[i].startDistance
    /\ \E g \in 1..Len(mergedGroups) : Len(mergedGroups[g]) > 1

\* The distinct names among names[k..], first occurrences in order, joined.
RECURSIVE JoinFirstOccurrences(_, _)
JoinFirstOccurrences(names, k) ==
    IF k > Len(names) THEN <<>>
    ELSE (IF \E j \in 1..(k - 1) : names[j] = names[k] THEN <<>> ELSE names[k])
             \o JoinFirstOccurrences(names, k + 1)

\* The candidate of brunnels with the given id.
BrunnelOfId(id) == CHOOSE b \in {brunnels[i] : i \in 1..Len(brunnels)} : b.id = id

\* C12: the entry of a merge group of more than one member has the id of
\* the group's first member in start order, the least startDistance and the
\* greatest endDistance of the members, so that every member's span lies in
\* it, and the distinct names of the members in first-occurrence order,
\* joined; the representative candidate carries that span and name; a
\* group of one is returned as it was.
C12_MergedRepresentative ==
    stage = "done" =>
        /\ Len(located) = Len(mergedGroups)
        /\ \A g \in 1..Len(mergedGroups) :
              LET group == mergedGroups[g]
                  e == located[g]
                  rep == BrunnelOfId(group[1].id)
                  names == [k \in 1..Len(group) |-> group[k].name]
              IN  /\ e.id = group[1].id
                  /\ \A k \in 1..Len(group) :
                        /\ group[1].routeSpan.startDistance
                              <= group[k].routeSpan.startDistance
                        /\ e.startDistance <= group[k].routeSpan.startDistance
                        /\ group[k].routeSpan.endDistance <= e.endDistance
                  /\ \E k \in 1..Len(group) :
                        e.startDistance = group[k].routeSpan.startDistance
                  /\ \E k \in 1..Len(group) :
                        e.endDistance = group[k].routeSpan.endDistance
                  /\ e.name = JoinFirstOccurrences(names, 1)
                  /\ rep.routeSpan = Span(e.startDistance, e.endDistance)
                  /\ rep.name = e.name
                  /\ Len(group) = 1 => rep = group[1]

\* C12 witness: a group whose last member does not reach the group's end,
\* and a group whose members bear two different names.
C12_Witness ==
    /\ stage = "done"
    /\ \E g \in 1..Len(mergedGroups) :
          /\ Len(mergedGroups[g]) > 1
          /\ mergedGroups[g][Len(mergedGroups[g])].routeSpan.endDistance
                < located[g].endDistance
    /\ \E g \in 1..Len(mergedGroups) :
          \E j, k \in 1..Len(mergedGroups[g]) :
              mergedGroups[g][j].name # mergedGroups[g][k].name

\* The difference of two bearings when a direction and its reverse count as
\* the same: the least |b1 - b2 - 180 k|.
FoldedDifference(b1, b2) ==
    MinOf({Abs(b1 - b2 - 180 * k) : k \in -2..2})

\* The route window of a candidate's span.
RouteWindow(b) ==
    getRouteSegment(route.coordinates,
                    calculateCumulativeDistances(route.coordinates),
                    b.routeSpan.startDistance, b.routeSpan.endDistance)

\* The pairs <<candidate segment, window segment>> whose folded bearing
\* difference is within the tolerance.
AlignedPairs(b) ==
    LET window == RouteWindow(b)
    IN  {p \in (1..(Len(b.geometry) - 1)) \X (1..(Len(window) - 1)) :
            FoldedDifference(
                rhumbBearing(b.geometry[p[1]], b.geometry[p[1] + 1]),
                rhumbBearing(Pt(window[p[2]].lon, window[p[2]].lat),
                             Pt(window[p[2] + 1].lon, window[p[2] + 1].lat)))
              <= bearingTolerance}

\* The candidates filterAligned decides on by bearings.
AlignmentDecided ==
    {i \in 1..Len(brunnels) :
        /\ brunnels[i].exclusionReason \in {"null", "misaligned"}
        /\ ~brunnels[i].routeSpan.isNull
        /\ Len(brunnels[i].geometry) >= 2
        /\ Len(RouteWindow(brunnels[i])) >= 2}

\* C13: after filterAligned a candidate that was included, has a span, two
\* or more vertices and a route window of two or more points is still
\* included exactly when one of its segments and one segment of the window
\* differ in folded bearing by the tolerance at most, and is 'misaligned'
\* otherwise.
C13_AlignmentDecision ==
    stage = "aligned" =>
        \A i \in AlignmentDecided :
            IF AlignedPairs(brunnels[i]) # {}
            THEN brunnels[i].exclusionReason = "null"
            ELSE brunnels[i].exclusionReason = "misaligned"

\* C13 witness: a candidate was marked 'misaligned', and a candidate passed
\* with one window segment within the tolerance and another beyond it.
C13_Witness ==
    /\ stage = "aligned"
    /\ \E i \in AlignmentDecided : brunnels[i].exclusionReason = "misaligned"
    /\ \E i \in AlignmentDecided :
          /\ brunnels[i].exclusionReason = "null"
          /\ AlignedPairs(brunnels[i]) # {}
          /\ AlignedPairs(brunnels[i])
                # (1..(Len(brunnels[i].geometry) - 1))
                    \X (1..(Len(RouteWindow(brunnels[i])) - 1))

\* C17: every entry of the returned list has the id and the span of a
\* candidate that ends the pipeline with no exclusion reason and a span with
\* startDistance <= endDistance, and no candidate with an exclusion reason
\* is an entry or a member of a merge group.
C17_OutputIncluded ==
    stage = "done" =>
        /\ \A i \in 1..Len(located) :
              \E j \in 1..Len(brunnels) :
                  /\ brunnels[j].id = located[i].id
                  /\ brunnels[j].exclusionReason = "null"
                  /\ ~brunnels[j].routeSpan.isNull
                  /\ brunnels[j].routeSpan.startDistance = located[i].startDistance
                  /\ brunnels[j].routeSpan.endDistance = located[i].endDistance
                  /\ located[i].startDistance <= located[i].endDistance
        /\ \A j \in 1..Len(brunnels) :
              brunnels[j].exclusionReason # "null" =>
                  /\ \A i \in 1..Len(located) : located[i].id # brunnels[j].id
                  /\ \A g \in 1..Len(mergedGroups) :
                        \A k \in 1..Len(mergedGroups[g]) :
                            mergedGroups[g][k].id # brunnels[j].id

\* C17 witness: the list has an entry, and candidates with a span were left
\* out for two different reasons.
C17_Witness ==
    /\ stage = "done"
    /\ located # <<>>
    /\ \E i, j \in 1..Len(brunnels) :
          /\ brunnels[i].exclusionReason # "null"
          /\ brunnels[j].exclusionReason # "null"
          /\ brunnels[i].exclusionReason # brunnels[j].exclusionReason
          /\ ~brunnels[i].routeSpan.isNull
          /\ ~brunnels[j].routeSpan.isNull

\* The function fn was called on its own and returned.
Called(fn) == stage = "call" /\ call.fn = fn /\ call.returned

\* The trackpoints whose reference distance lies in [startDist, endDist].
TrackpointsWithin(startDist, endDist) ==
    LET InRange(c) == startDist <= c.distance /\ c.distance <= endDist
    IN  SelectSeq(route.coordinates, InRange)

\* C14 (as claimed): for a span with 0 <= start < end that holds two or
\* more trackpoints, getRouteSegment returns the trackpoints whose reference
\* distance lies in [start, end] and no other.
C14_RouteWindow ==
    Called("getRouteSegment") =>
        LET within == TrackpointsWithin(call.args.startDist, call.args.endDist)
        IN  (/\ 0 <= call.args.startDist
             /\ call.args.startDist < call.args.endDist
             /\ Len(within) >= 2)
                => call.result = within

\* The window of the span of an isAligned call.
CallWindow ==
    LET routeCoords == SubSeq(route.coordinates, 1, call.args.routePoints)
    IN  getRouteSegment(routeCoords, calculateCumulativeDistances(routeCoords),
                        call.args.brunnel.routeSpan.startDistance,
                        call.args.brunnel.routeSpan.endDistance)

\* C15: a candidate with fewer than two vertices, or without a route span,
\* or on a route of fewer than two points, or with a zero-width span, or
\* with a route window of fewer than two points, is reported aligned and
\* filterAligned leaves it without an exclusion reason, whatever the
\* tolerance.
C15_AlignmentFailOpen ==
    Called("isAligned") =>
        LET b == call.args.brunnel
        IN  (\/ Len(b.geometry) < 2
             \/ b.routeSpan.isNull
             \/ call.args.routePoints < 2
             \/ b.routeSpan.startDistance = b.routeSpan.endDistance
             \/ Len(CallWindow) < 2)
                => /\ call.result.aligned
                   /\ call.result.exclusionReason = "null"

\* C15 witness: a way across the route with a zero-width span on a route of
\* two or more points was reported aligned at tolerance 0.
C15_Witness ==
    /\ Called("isAligned")
    /\ Len(call.args.brunnel.geometry) = 2
    /\ call.args.brunnel.geometry[1].lon = call.args.brunnel.geometry[2].lon
    /\ ~call.args.brunnel.routeSpan.isNull
    /\ call.args.brunnel.routeSpan.startDistance
          = call.args.brunnel.routeSpan.endDistance
    /\ call.args.routePoints >= 2
    /\ call.args.toleranceDegrees = 0
    /\ call.result.aligned

\* C16: for bearings b1, b2 in [0, 360) getBearingDifference is in [0, 90]
\* and the same for (b2, b1); it is 0 for (b, b) and for (b, b + 180), with
\* b + 180 reduced modulo 360 or not.
C16_BearingFold ==
    Called("getBearingDifference") =>
        LET b1 == call.args.bearing1
            b2 == call.args.bearing2
        IN  /\ b2 < 360 => (0 <= call.result /\ call.result <= 90)
            /\ call.result = getBearingDifference(b2, b1)
            /\ b2 = b1 => call.result = 0
            /\ b2 = b1 + 180 => call.result = 0
            /\ b2 = (b1 + 180) % 360 => call.result = 0

\* C16 witness: the function was called with b and b + 180, the latter
\* beyond 360.
C16_Witness ==
    /\ Called("getBearingDifference")
    /\ call.args.bearing2 = call.args.bearing1 + 180
    /\ call.args.bearing2 >= 360
    /\ call.result = 0

\* The nodes of a raw geometry that are numbers within the bounds, as the
\* {lat, lon} validateGeometry keeps.
ValidNodes(geometry) ==
    LET Valid(n) == /\ n.lat.isNumber /\ n.lon.isNumber
                    /\ -80 <= n.lat.value /\ n.lat.value <= 80
                    /\ -180 <= n.lon.value /\ n.lon.value <= 180
        kept == SelectSeq(geometry, Valid)
    IN  [i \in 1..Len(kept) |-> [lat |-> kept[i].lat.value, lon |-> kept[i].lon.value]]

\* C18: validateGeometry returns the nodes that are numbers with latitude in
\* [-80, 80] and longitude in [-180, 180], in their order, or null when
\* fewer than two remain; processOverpassData drops a way whose geometry is
\* null, so every way it returns has two or more vertices, all valid.
C18_Validation ==
    Called("processOverpassData") =>
        LET raw == call.args.elements[Len(call.args.elements)].geometry
            kept == ValidNodes(raw)
            ways == call.result.brunnels.bridges \o call.result.brunnels.tunnels
        IN  /\ IF Len(kept) < 2
               THEN call.result.validGeometry.isNull /\ ways = <<>>
               ELSE /\ ~call.result.validGeometry.isNull
                    /\ call.result.validGeometry.coords = kept
            /\ \A w \in 1..Len(ways) :
                  /\ Len(ways[w].geometry) >= 2
                  /\ ways[w].geometry = kept

\* C18 witness: a way was kept with fewer vertices than it had nodes, one of
\* them on the bounds.
C18_Witness ==
    /\ Called("processOverpassData")
    /\ Len(call.result.brunnels.bridges) = 1
    /\ Len(call.result.brunnels.bridges[1].geometry)
          < Len(call.args.elements[Len(call.args.elements)].geometry)
    /\ \E v \in 1..Len(call.result.brunnels.bridges[1].geometry) :
          call.result.brunnels.bridges[1].geometry[v].lat = 80

\* C19 (as claimed): turf.distance called with a units option that is not a
\* recognised unit throws 'Invalid units'.
C19_InvalidUnitsThrow ==
    Called("distance") =>
        (call.args.options.units \notin FactorKeys \cup {"undefined"}
            => call.result.threw = "Invalid units")

\* Two projections are different points.
DifferentPoints(p, q) ==
    p.lon * q.den # q.lon * p.den \/ p.lat * q.den # q.lat * p.den

\* The distance from the point of a nearestPointOnLine call to its
\* projection on segment i of the route.
ProjectionDistance(i) ==
    distance(pointOnSegment(route.turfLineString[i], route.turfLineString[i + 1],
                            call.args.pt).point,
             call.args.pt)

\* C20: nearestPointOnLine returns the projection, the distance and the
\* cumulative location of the lowest-index segment among those whose
\* projection is at the least distance.
C20_TieBreak ==
    Called("nearestPointOnLine") =>
        LET line == route.turfLineString
            segments == 1..(Len(line) - 1)
            least == MinOf({ProjectionDistance(i) : i \in segments})
            first == MinOf({i \in segments : ProjectionDistance(i) = least})
            p == pointOnSegment(line[first], line[first + 1], call.args.pt)
        IN  /\ call.result.found
            /\ call.result.point = p.point
            /\ call.result.dist = least
            /\ call.result.location
                  = LineLengthTo(first)
                      + (p.tNum * distance(line[first], line[first + 1])) \div p.tDen

\* C20 witness: two segments have projections at the same least distance
\* that are different points.
C20_Witness ==
    /\ Called("nearestPointOnLine")
    /\ \E i, j \in 1..(Len(route.turfLineString) - 1) :
          /\ i < j
          /\ ProjectionDistance(i) = call.result.dist
          /\ ProjectionDistance(j) = call.result.dist
          /\ DifferentPoints(
                 pointOnSegment(route.turfLineString[i], route.turfLineString[i + 1],
                                call.args.pt).point,
                 pointOnSegment(route.turfLineString[j], route.turfLineString[j + 1],
                                call.args.pt).point)

\* Number of equal parts a segment is cut into to sample the points of a
\* polyline.
SampleParts == 4

\* The point k parts of n from a to b (grid points).
PointAt(a, b, k, n) ==
    [lon |-> a.lon * n + k * (b.lon - a.lon),
     lat |-> a.lat * n + k * (b.lat - a.lat),
     den |-> n]

\* p lies on the segment from a to b (grid points): it is collinear with
\* them and between them.
OnSegment(p, a, b) ==
    LET px == p.lon - a.lon * p.den
        py == p.lat - a.lat * p.den
        dx == b.lon - a.lon
        dy == b.lat - a.lat
        dot == px * dx + py * dy
    IN  /\ px * dy = py * dx
        /\ 0 <= dot
        /\ dot <= (dx * dx + dy * dy) * p.den

\* C21 (as claimed): the point nearestPointOnLine returns lies on a segment
\* of the line, no point of the line is strictly closer to the given point
\* than the distance it returns, and its location lies in [0, length of the
\* line] and is the length of the segments before one that holds the point
\* plus t times that segment's length.
C21_NearestOnLine ==
    Called("nearestPointOnLine") =>
        LET line == route.turfLineString
            segments == 1..(Len(line) - 1)
            p == call.result.point
        IN  /\ \E i \in segments : OnSegment(p, line[i], line[i + 1])
            /\ \A i \in segments, k \in 0..SampleParts :
                   distance(PointAt(line[i], line[i + 1], k, SampleParts),
                            call.args.pt) >= call.result.dist
            /\ 0 <= call.result.location
            /\ call.result.location <= LineLengthTo(Len(line))
            /\ \E i \in segments :
                   LET s == pointOnSegment(line[i], line[i + 1], call.args.pt)
                   IN  /\ OnSegment(p, line[i], line[i + 1])
                       /\ ~DifferentPoints(p, s.point)
                       /\ call.result.location
                             = LineLengthTo(i)
                                 + (s.tNum * distance(line[i], line[i + 1]))
                                       \div s.tDen

\* The reason the stage that has just run writes.
ReasonOfStage(s) ==
    CASE s = "contained" -> "outlier"
      [] s = "aligned" -> "misaligned"
      [] s = "resolved" -> "alternative"
      [] OTHER -> "null"

\* C25: no stage of the pipeline changes or clears an exclusion reason that
\* is set; a stage writes only to candidates whose reason was null when it
\* started, and writes its own reason (outlier, then misaligned, then
\* alternative), so the final value names the first stage that rejected the
\* candidate.
C25_ExclusionWriteOnce ==
    [][\A i \in 1..Len(brunnels) :
          /\ brunnels[i].exclusionReason # "null"
                => brunnels'[i].exclusionReason = brunnels[i].exclusionReason
          /\ brunnels'[i].exclusionReason # brunnels[i].exclusionReason
                => /\ brunnels[i].exclusionReason = "null"
                   /\ brunnels'[i].exclusionReason = ReasonOfStage(stage')]_vars

\* C25 witness: after filterAligned and handleOverlaps ran, a candidate is
\* still marked as an outlier although it has a route span and fails the
\* alignment test.
C25_Witness ==
    /\ stage = "resolved"
    /\ \E i \in 1..Len(brunnels) :
          /\ brunnels[i].exclusionReason = "outlier"
          /\ ~brunnels[i].routeSpan.isNull
          /\ ~isAligned(brunnels[i], route.coordinates,
                        calculateCumulativeDistances(route.coordinates),
                        bearingTolerance)

\* The number of 'count' elements before element i of the answer of a
\* queryBrunnels call.
CountsBefore(i) ==
    Cardinality({j \in 1..(i - 1) : call.args.elements[j].type = "count"})

\* The ids of the ways of two or more nodes of the answer that satisfy
\* After, in the order of the answer.
WayIds(After(_)) ==
    LET elements == call.args.elements
        Way(i) == /\ elements[i].type = "way"
                  /\ Len(elements[i].geometry) >= 2
                  /\ After(i)
    IN  SelectSeq([i \in 1..Len(elements) |-> i], Way)

\* C26: processOverpassData returns the ways that follow an odd number of
\* 'count' elements as bridges and those that follow an even positive number
\* as tunnels, each list in the order of the answer, and a way before the
\* first 'count' element in neither; the entries of the bridges list have
\* type 'bridge' and those of the tunnels list type 'tunnel', and so have the
\* Brunnel instances made of them.
C26_CountMarkers ==
    Called("queryBrunnels") =>
        LET bridges == call.result.overpassData.bridges
            tunnels == call.result.overpassData.tunnels
            Odd(i) == CountsBefore(i) % 2 = 1
            EvenPositive(i) == CountsBefore(i) > 0 /\ CountsBefore(i) % 2 = 0
        IN  /\ [k \in 1..Len(bridges) |-> bridges[k].id] = WayIds(Odd)
            /\ [k \in 1..Len(tunnels) |-> tunnels[k].id] = WayIds(EvenPositive)
            /\ \A k \in 1..Len(bridges) : bridges[k].type = "bridge"
            /\ \A k \in 1..Len(tunnels) : tunnels[k].type = "tunnel"
            /\ Len(call.result.brunnels) = Len(bridges) + Len(tunnels)
            /\ \A k \in 1..Len(call.result.brunnels) :
                   call.result.brunnels[k].type
                       = IF k <= Len(bridges) THEN "bridge" ELSE "tunnel"

\* C26 witness: an answer with a way before its first 'count' element and a
\* way after its third, which is returned as a bridge.
C26_Witness ==
    /\ Called("queryBrunnels")
    /\ Len(call.args.elements) >= 1
    /\ call.args.elements[1].type = "way"
    /\ Len(call.args.elements[1].geometry) >= 2
    /\ \E k \in 1..Len(call.result.overpassData.bridges) :
          CountsBefore(call.result.overpassData.bridges[k].id) = 3
    /\ \A k \in 1..Len(call.result.overpassData.bridges) :
          call.result.overpassData.bridges[k].id # 1

\* C24 (as claimed): simulateSelection called without a visible range on a
\* page whose chart is there but whose scale cannot be read completes
\* without an error, having selected from startKm / totalDistanceKm to
\* endKm / totalDistanceKm of the chart's width.
C24_SelectionFallback ==
    (/\ Called("simulateSelection")
     /\ call.args.chart
     /\ call.args.visibleRange.isNull
     /\ call.args.reading.isNull)
        => /\ call.result.threw = "none"
           /\ call.result.events
                 = <<Selection(call.args.startKm, call.args.endKm,
                               <<call.args.startKm, call.args.totalDistanceKm>>,
                               <<call.args.endKm, call.args.totalDistanceKm>>)>>

\* The wheel events among events, and the others.
IsWheel(e) == e.kind = "wheel"
NotWheel(e) == e.kind # "wheel"

\* The number of trackpoints of the route whose distance lies in the span
\* of brunnel b.
TrackpointsInSpan(b) ==
    Cardinality({i \in 1..Len(route.coordinates) :
                    /\ b.startDistance <= route.coordinates[i].distance
                    /\ route.coordinates[i].distance <= b.endDistance})

\* C23: in an applyBrunnel call every wheel event of zoomToBrunnel comes
\* before any selection; then, when the span holds fewer than two
\* trackpoints, a selection of a wider range and a right-click, and when it
\* holds two or more neither of them; then the selection of the brunnel's
\* own span, then the click on the button.  While zoomToBrunnel runs, and
\* when it returned null (applyBrunnel then throws), there is neither a
\* selection nor a click.
C23_ApplyOrder ==
    stage = "applyBrunnel" =>
        LET task == tasks[1]
            b == task.sorted[1]
            later == SelectSeq(task.events, NotWheel)
            n == Len(later)
            few == TrackpointsInSpan(b) < 2
            expected == IF few
                        THEN <<"selection", "contextmenu", "selection", "click">>
                        ELSE <<"selection", "click">>
            own == IF few THEN 3 ELSE 1
        IN  /\ task.events = SelectSeq(task.events, IsWheel) \o later
            /\ n <= Len(expected)
            /\ \A i \in 1..n : later[i].kind = expected[i]
            /\ n >= own => /\ later[own].startKm = b.startDistance
                           /\ later[own].endKm = b.endDistance
            /\ (few /\ n >= 1)
                  => /\ later[1].startKm <= b.startDistance
                     /\ later[1].endKm >= b.endDistance
                     /\ later[1].endKm - later[1].startKm
                           > b.endDistance - b.startDistance
            /\ task.pc = "returned" => n = Len(expected)
            /\ task.pc \in {"zoomToBrunnel", "zoomOut", "zoomIn"} => n = 0
            /\ (~page.chart /\ task.pc # "zoomToBrunnel")
                  => task.pc = "threw" /\ n = 0
            /\ task.error = "Could not zoom to brunnel"
                  => task.pc = "threw" /\ n = 0

\* C23 witness: applyBrunnel returned for a span of fewer than two
\* trackpoints after zoomToBrunnel had turned the wheel.
C23_Witness ==
    /\ stage = "applyBrunnel"
    /\ tasks[1].pc = "returned"
    /\ TrackpointsInSpan(tasks[1].sorted[1]) < 2
    /\ Len(SelectSeq(tasks[1].events, IsWheel)) >= 2
    /\ Len(SelectSeq(tasks[1].events, NotWheel)) = 4

\* C30: zoomToBrunnel dispatches at most 50 wheel events over its two
\* phases together, and it returns in the end, whatever the chart reports.
C30_ZoomTerminates ==
    /\ [](stage = "applyBrunnel"
            => Len(SelectSeq(tasks[1].events, IsWheel)) <= maxIterations)
    /\ <>(stage = "applyBrunnel"
            /\ tasks[1].pc \notin {"zoomToBrunnel", "zoomOut", "zoomIn"})

\* C30 witness: zoomToBrunnel returned a range of more than 1 km after 50
\* wheel events, some of them zooming out.
C30_Witness ==
    /\ stage = "applyBrunnel"
    /\ tasks[1].pc \in {"simulateSelection", "expandedSelection"}
    /\ Len(SelectSeq(tasks[1].events, IsWheel)) = maxIterations
    /\ tasks[1].events[1].deltaY = 120
    /\ tasks[1].visibleRange.rangeKm > maxRangeKm

\* The handlers of an apply that are awaiting.
ApplyInFlight ==
    {t \in 1..Len(tasks) :
        tasks[t].fn \in {"handleApplySingleBrunnel", "handleApplyAllBrunnels"}}

\* The handlers of a locate that are awaiting.
LocateInFlight == {t \in 1..Len(tasks) : tasks[t].fn = "handleLocateBrunnels"}

\* C22: between two successful locates, under every interleaving of clicks
\* on result items and on Apply All, applyBrunnel is executed at most once
\* for each brunnel id.
C22_ApplyAtMostOnce == \A id \in DOMAIN marked : marked[id] <= 1

\* C27: whenever no apply is running, appliedBrunnelIds holds exactly the
\* ids of the brunnels whose apply sequence completed on the page, also
\* after an Apply All that threw part-way through its list.
C27_AppliedMatchesPage ==
    ApplyInFlight = {} =>
        appliedBrunnelIds = {id \in DOMAIN marked : marked[id] >= 1}

\* C28: at most one locate operation is in flight at any time; no user
\* action, editing an option while a locate runs included, starts a second
\* one before the first has written its result.
C28_OneLocateInFlight == Cardinality(LocateInFlight) <= 1

\* C29: a locate that fails leaves locatedBrunnels, totalDistance and
\* appliedBrunnelIds unchanged, enables the Locate button and shows the
\* error; one that succeeds empties appliedBrunnelIds, replaces
\* locatedBrunnels and enables Apply All iff a brunnel was found.
C29_LocateOutcome ==
    [][\A t \in 1..Len(tasks) :
          (tasks[t].fn = "handleLocateBrunnels" /\ Settled(tasks[t])) =>
              IF tasks[t].pc = "rejected"
              THEN /\ locatedBrunnels' = locatedBrunnels
                   /\ totalDistance' = totalDistance
                   /\ appliedBrunnelIds' = appliedBrunnelIds
                   /\ ~panel'.locateBtn.disabled
                   /\ panel'.status = Status("error", tasks[t].error)
              ELSE /\ appliedBrunnelIds' = {}
                   /\ locatedBrunnels' = tasks[t].result.brunnels
                   /\ totalDistance' = tasks[t].result.totalDistance
                   /\ panel'.applyBtn.disabled = (tasks[t].result.brunnels = <<>>)]_vars

\* A locate failed after brunnels were located and one of them applied: the
\* error is shown, the button is enabled and the lists are still there.
C29_Witness ==
    /\ stage = "panel"
    /\ tasks = <<>>
    /\ panel.status \in {Status("error", error) : error \in LocateErrors}
    /\ ~panel.locateBtn.disabled
    /\ locatedBrunnels # <<>>
    /\ appliedBrunnelIds # {}

====
